---- MODULE Spec2Model ----
(***************************************************************************)
(* Model of the cloudlogging Logger (github.com/qvik/go-cloudlogging).     *)
(*                                                                         *)
(* The Logger of the final, map-based revision (src/unnamed/part_012) is   *)
(* modelled together with the helpers of src/internal/utils.go, the zap    *)
(* glue of src/zap.go and the remote glue of src/google_cloud_logging.go.  *)
(* Go maps, zap configurations and zap loggers are reference types: they   *)
(* live in heaps (sequences indexed by a reference, 0 being nil) so that   *)
(* sharing between a logger and the loggers derived from it is visible.    *)
(***************************************************************************)
EXTENDS Integers, Sequences, FiniteSets, TLC

(***************************************************************************)
(* Bounds of the model.                                                    *)
(***************************************************************************)
MaxLoggers == 3
MaxOpts == 3
MaxThreads == 2

(***************************************************************************)
(* Level (part_012 lines 16-25) and the zapcore levels they map to.        *)
(***************************************************************************)
Debug == 0
Info == 1
Warning == 2
Error == 3
Fatal == 4
Levels == {Debug, Info, Warning, Error, Fatal}

ZapDebugLevel == -1
ZapInfoLevel == 0
ZapWarnLevel == 1
ZapErrorLevel == 2
ZapFatalLevel == 5

levelToZapLevelMap ==
  [lv \in Levels |->
     CASE lv = Debug -> ZapDebugLevel
       [] lv = Info -> ZapInfoLevel
       [] lv = Warning -> ZapWarnLevel
       [] lv = Error -> ZapErrorLevel
       [] lv = Fatal -> ZapFatalLevel]

\* Severity of the remote entries; DefaultSeverity is gcloudlog.Default.
DefaultSeverity == "Default"
levelToGoogleCloudLoggingSeverityMap ==
  [lv \in Levels |->
     CASE lv = Debug -> "Debug"
       [] lv = Info -> "Info"
       [] lv = Warning -> "Warning"
       [] lv = Error -> "Error"
       [] lv = Fatal -> "Critical"]

\* A lookup that finds no level in the table.
SeverityOfDefault(level) == DefaultSeverity

SeverityOf(level) ==
  IF level \in DOMAIN levelToGoogleCloudLoggingSeverityMap
    THEN levelToGoogleCloudLoggingSeverityMap[level]
    ELSE DefaultSeverity

\* The zap level an option level or SetLogLevel argument selects; InfoLevel
\* is the fallback of createConfig and setZapLogLevel.
ZapLevelOf(level) ==
  IF level \in DOMAIN levelToZapLevelMap
    THEN levelToZapLevelMap[level]
    ELSE ZapInfoLevel

(***************************************************************************)
(* Values of type interface{}: a dynamic type tag and a value.             *)
(***************************************************************************)
StrVal(s) == <<"string", s>>
IntVal(i) == <<"int", i>>
BoolVal(b) == <<"bool", b>>

Keys == {StrVal("k1"), StrVal("1"), IntVal(1)}
Values == {StrVal("v1"), BoolVal(FALSE), IntVal(12)}

Digit == <<"0", "1", "2", "3", "4", "5", "6", "7", "8", "9">>

\* Concatenation of two strings of decimal digits, as a table on the digit
\* strings the model can produce (TLA+ has no string concatenation).
RECURSIVE Decimal(_)
Decimal(n) ==
  IF n < 10 THEN <<Digit[n + 1]>>
  ELSE Decimal(n \div 10) \o <<Digit[(n % 10) + 1]>>

DigitsToString(ds) ==
  CASE ds = <<"1">> -> "1"
    [] ds = <<"2">> -> "2"
    [] ds = <<"1", "2">> -> "12"
    [] ds = <<"1", "3">> -> "13"
    [] OTHER -> "?"

\* fmt.Sprint of a value.
Sprint(x) ==
  CASE x[1] = "string" -> x[2]
    [] x[1] = "bool" -> (IF x[2] THEN "true" ELSE "false")
    [] x[1] = "int" -> DigitsToString(Decimal(x[2]))

(***************************************************************************)
(* Flat key/value lists: key1, value1, key2, value2, ...                   *)
(***************************************************************************)
EmptyMap == [k \in {} |-> StrVal("")]

\* The keys of a flat list (its odd positions).
KeysOf(keysAndValues) ==
  {keysAndValues[i] : i \in {j \in DOMAIN keysAndValues : j % 2 = 1}}

\* Permutations of a finite set, as sequences: the orders in which a Go
\* range statement can enumerate a map with that key set.
RECURSIVE Orders(_)
Orders(S) ==
  IF S = {} THEN {<<>>}
  ELSE UNION {{<<x>> \o o : o \in Orders(S \ {x})} : x \in S}


(***************************************************************************)
(* internal/utils.go                                                       *)
(***************************************************************************)

\* m[k] = v on a Go map held as a function.
MapPut(m, k, v) == [x \in (DOMAIN m) \cup {k} |-> IF x = k THEN v ELSE m[x]]

\* The loop of MustApplyKeysAndValues (utils.go lines 22-30) on the map m,
\* from index count of an even-length list.
RECURSIVE ApplyPairs(_, _, _)
ApplyPairs(keysAndValues, count, m) ==
  IF count >= Len(keysAndValues) THEN m
  ELSE ApplyPairs(keysAndValues, count + 2,
                  MapPut(m, keysAndValues[count + 1], keysAndValues[count + 2]))

\* A variant of the loop that keeps the value of a key already in the map.
RECURSIVE ApplyPairsKeepOld(_, _, _)
ApplyPairsKeepOld(keysAndValues, count, m) ==
  IF count >= Len(keysAndValues) THEN m
  ELSE ApplyPairsKeepOld(keysAndValues, count + 2,
         IF keysAndValues[count + 1] \in DOMAIN m THEN m
         ELSE MapPut(m, keysAndValues[count + 1], keysAndValues[count + 2]))

MustApplyKeysAndValuesKeepOld(keysAndValues, toMap, heap) ==
  IF Len(keysAndValues) = 0 THEN heap
  ELSE [heap EXCEPT ![toMap] = ApplyPairsKeepOld(keysAndValues, 0, heap[toMap])]

\* MustApplyKeysAndValues writes the list into the map referenced by toMap
\* in the heap of maps; the caller has excluded odd lengths (a panic).
MustApplyKeysAndValues(keysAndValues, toMap, heap) ==
  IF Len(keysAndValues) = 0 THEN heap
  ELSE [heap EXCEPT ![toMap] = ApplyPairs(keysAndValues, 0, heap[toMap])]

\* MapToKeysAndValuesList: the flat list of a map, in the enumeration order
\* order of its keys.
RECURSIVE MapToKeysAndValuesList(_, _)
MapToKeysAndValuesList(theMap, order) ==
  IF order = <<>> THEN <<>>
  ELSE <<Head(order), theMap[Head(order)]>> \o
       MapToKeysAndValuesList(theMap, Tail(order))

(***************************************************************************)
(* Options (LogOption.apply).                                              *)
(***************************************************************************)
NoZapConfig == [given |-> FALSE, level |-> ZapInfoLevel]
UserZapConfig(zl) == [given |-> TRUE, level |-> zl]

\* A nil *monitoredres.MonitoredResource, and the descriptor of a Cloud
\* Function.
NoResource == [type |-> "", project_id |-> "", function_name |-> "", region |-> ""]
CloudFunctionResource(projectID, functionName, functionRegion) ==
  [type |-> "cloud_function", project_id |-> projectID,
   function_name |-> functionName, region |-> functionRegion]

NoOption ==
  [kind |-> "none", level |-> Debug, zapConfig |-> NoZapConfig,
   gcpProjectID |-> "", logID |-> "", resource |-> NoResource, kv |-> <<>>,
   paths |-> <<>>, hints |-> <<>>]
WithLevel(lv) == [NoOption EXCEPT !.kind = "WithLevel", !.level = lv]
WithZap(cfg) == [NoOption EXCEPT !.kind = "WithZap", !.zapConfig = cfg]
WithGoogleCloudLogging(projectID) ==
  [NoOption EXCEPT !.kind = "WithGoogleCloudLogging", !.gcpProjectID = projectID]
WithCommonKeysAndValues(kv) ==
  [NoOption EXCEPT !.kind = "WithCommonKeysAndValues", !.kv = kv]
WithUnitTestHook == [NoOption EXCEPT !.kind = "withGoogleCloudLoggingUnitTestHook"]
WithOutputPaths(paths) ==
  [NoOption EXCEPT !.kind = "WithOutputPaths", !.paths = paths]
WithErrorOutputPaths(paths) ==
  [NoOption EXCEPT !.kind = "WithErrorOutputPaths", !.paths = paths]
WithOutputHints(hints) ==
  [NoOption EXCEPT !.kind = "WithOutputHints", !.hints = hints]

\* options{logLevel: Debug} (part_012 line 124).
DefaultOptions ==
  [logLevel |-> Debug, gcpProjectID |-> "", useZap |-> FALSE,
   zapConfig |-> NoZapConfig, useGoogleCloudLogging |-> FALSE,
   hasCommon |-> FALSE, commonKeysAndValues |-> <<>>,
   googleCloudLoggingUnitTestHook |-> FALSE,
   googleCloudLoggingLogID |-> "",
   googleCloudLoggingMonitoredResource |-> NoResource, outputPaths |-> <<>>,
   errorOutputPaths |-> <<>>, outputHints |-> <<>>]

\* A WithLevel that keeps a level an earlier option has set.
withLevelApplyFirstWins(w, opts) ==
  IF opts.logLevel # Debug THEN opts ELSE [opts EXCEPT !.logLevel = w.level]

withLevelApply(w, opts) == [opts EXCEPT !.logLevel = w.level]

withOutputPathsApply(w, opts) == [opts EXCEPT !.outputPaths = w.paths]

withErrorOutputPathsApply(w, opts) == [opts EXCEPT !.errorOutputPaths = w.paths]

withOutputHintsApply(w, opts) == [opts EXCEPT !.outputHints = w.hints]

withZapApply(w, opts) ==
  [opts EXCEPT !.useZap = TRUE, !.zapConfig = w.zapConfig]

withGoogleCloudLoggingApply(w, opts) ==
  [opts EXCEPT !.useGoogleCloudLogging = TRUE,
               !.gcpProjectID = w.gcpProjectID,
               !.googleCloudLoggingLogID = w.logID,
               !.googleCloudLoggingMonitoredResource = w.resource]

withCommonKeysAndValuesApply(w, opts) ==
  [opts EXCEPT !.hasCommon = TRUE, !.commonKeysAndValues = w.kv]

withUnitTestHookApply(w, opts) ==
  [opts EXCEPT !.googleCloudLoggingUnitTestHook = TRUE]

apply(o, opts) ==
  CASE o.kind = "WithLevel" -> withLevelApply(o, opts)
    [] o.kind = "WithZap" -> withZapApply(o, opts)
    [] o.kind = "WithGoogleCloudLogging" -> withGoogleCloudLoggingApply(o, opts)
    [] o.kind = "WithCommonKeysAndValues" -> withCommonKeysAndValuesApply(o, opts)
    [] o.kind = "withGoogleCloudLoggingUnitTestHook" -> withUnitTestHookApply(o, opts)
    [] o.kind = "WithOutputPaths" -> withOutputPathsApply(o, opts)
    [] o.kind = "WithErrorOutputPaths" -> withErrorOutputPathsApply(o, opts)
    [] o.kind = "WithOutputHints" -> withOutputHintsApply(o, opts)
    [] OTHER -> opts

\* for _, o := range opt { o.apply(&opts) } (part_012 lines 126-128).
RECURSIVE ApplyOptions(_, _)
ApplyOptions(opt, opts) ==
  IF opt = <<>> THEN opts
  ELSE ApplyOptions(Tail(opt), apply(Head(opt), opts))


(***************************************************************************)
(* State.                                                                  *)
(***************************************************************************)
VARIABLES
  loggers,     \* heap of Logger structs, indexed by *Logger
  maps,        \* heap of Go maps (commonKeysAndValues), indexed by reference
  zapConfigs,  \* heap of zap.Config: the value of the AtomicLevel of each
  zapLoggers,  \* heap of zap.SugaredLogger: its config and its bound fields
  remote,      \* the Google Cloud Logging client and its buffer
  proc,        \* the process: running, exited (os.Exit) or panicked
  last,        \* the last call made on the API and what it did
  threads,     \* concurrent callers: position and locals of each
  sharedWrites, \* writes made by concurrent callers to memory shared by them
  history,     \* the entries handed to the backends, in the order of arrival
  arrays       \* heap of the arrays behind Go slices, indexed by reference

vars == <<loggers, maps, zapConfigs, zapLoggers, remote, proc, last,
          threads, sharedWrites, history, arrays>>

NoErr == "nil"
EmptyLabels == [k \in {} |-> ""]

\* A nil reference, the client made by NewClient, and the empty
\* &gcloudlog.Client{} / &gcloudlog.Logger{} of the unit-test hook.
NilRef == 0
RealRef == 1
EmptyRef == 2

\* The environment variables the constructors for the cloud platforms read.
EnvVars == {"GCP_PROJECT", "FUNCTION_NAME", "FUNCTION_REGION"}
NoEnv == [v \in EnvVars |-> ""]

NoLast ==
  [op |-> "none", verb |-> "", logger |-> NilRef, level |-> Debug,
   threshold |-> Debug, kv |-> <<>>, before |-> EmptyMap, child |-> NilRef,
   calls |-> <<>>, labels |-> EmptyLabels, severity |-> "",
   zapFields |-> <<>>, err |-> NoErr, flushErr |-> NoErr,
   syncErr |-> NoErr, closeErr |-> NoErr, buildErr |-> NoErr, opt |-> <<>>,
   env |-> NoEnv, panicked |-> FALSE]

\* A caller that is in no call.
IdleThread ==
  [pc |-> "idle", logger |-> NilRef, verb |-> "", kv |-> <<>>,
   visited |-> {}, labels |-> EmptyLabels, newRef |-> NilRef, count |-> 0]

Running == proc.status = "running"

\* The common fields of a logger: the content of its map (a nil map reads
\* as empty).
FieldsOf(ref, heap) == IF ref = NilRef THEN EmptyMap ELSE heap[ref]
Fields(l) == FieldsOf(loggers[l].commonKeysAndValues, maps)

HasRemote(l) == loggers[l].googleCloudLoggingLogger # NilRef
HasZap(l) == loggers[l].zapLogger # NilRef

\* The record of the entries handed to the backends; it is kept when
\* recording is set.
NoHistory == [recording |-> FALSE, calls |-> 0, deliveries |-> <<>>]

\* Before NewLogger: no logger, no map, no backend.
InitProgram ==
  /\ loggers = <<>>
  /\ maps = <<>>
  /\ zapConfigs = <<>>
  /\ zapLoggers = <<>>
  /\ remote = [created |-> 0, open |-> FALSE, dirty |-> FALSE]
  /\ proc = [status |-> "running", exits |-> 0]
  /\ last = NoLast
  /\ threads = [t \in 1..MaxThreads |-> IdleThread]
  /\ sharedWrites = {}
  /\ arrays = <<>>

Init ==
  /\ InitProgram
  /\ history = NoHistory

(***************************************************************************)
(* NewLogger (part_012 lines 123-183).                                     *)
(***************************************************************************)

\* The validation of lines 130-132.
ProjectIDNotChecked(opts) == FALSE

ProjectIDMissing(opts) ==
  opts.useGoogleCloudLogging /\ opts.gcpProjectID = ""

\* The error checks of the construction of the backends (lines 145-147 and
\* 158-160): a failure of gcloudlog.NewClient, a failure of zap's Build.
createGoogleCloudLoggingLoggerFails(opts, clientOk) ==
  /\ opts.useGoogleCloudLogging
  /\ ~opts.googleCloudLoggingUnitTestHook
  /\ ~clientOk

\* A construction that does not look at the error of createZapLogger.
createZapLoggerErrorIgnored(opts, buildOk) == FALSE

createZapLoggerFails(opts, buildOk) == opts.useZap /\ ~buildOk

\* createConfig (zap.go lines 15-20): the level of a configuration built
\* from the options; createZapLogger uses the caller's configuration when
\* one was given (zap.go lines 73-76).
\* A createConfig that gives every configuration zap's InfoLevel.
createConfigInfoLevel(opts) == [level |-> ZapInfoLevel]

createConfig(opts) == [level |-> ZapLevelOf(opts.logLevel)]

createZapLoggerConfig(opts) ==
  IF opts.zapConfig.given THEN [level |-> opts.zapConfig.level]
  ELSE createConfig(opts)

\* The map of the WithCommonKeysAndValues option, allocated in the heap.
OptionMap(opts) == ApplyPairs(opts.commonKeysAndValues, 0, EmptyMap)

NewLoggerImpl(opt, clientOk, buildOk, order, result) ==
  LET opts == ApplyOptions(opt, DefaultOptions)
      useRemote == opts.useGoogleCloudLogging
      useHook == opts.googleCloudLoggingUnitTestHook
      needClient == useRemote /\ ~useHook
      clientFails == createGoogleCloudLoggingLoggerFails(opts, clientOk)
      remote1 == IF needClient /\ clientOk
                   THEN [created |-> remote.created + 1, open |-> TRUE,
                         dirty |-> TRUE]
                   ELSE remote
      calls1 == IF needClient THEN <<"NewClient">> ELSE <<>>
      calls2 == IF opts.useZap THEN calls1 \o <<"zap.Build">> ELSE calls1
      zapFails == createZapLoggerFails(opts, buildOk)
      zapBuilt == opts.useZap /\ buildOk
      ref == IF ~useRemote THEN NilRef
             ELSE IF useHook THEN EmptyRef ELSE RealRef
      mapRef == IF opts.hasCommon THEN Len(maps) + 1 ELSE NilRef
      zapFields == IF zapBuilt /\ opts.hasCommon /\ Len(opts.commonKeysAndValues) > 0
                     THEN MapToKeysAndValuesList(OptionMap(opts), order)
                     ELSE <<>>
      l == [logLevel |-> opts.logLevel,
            zapConfig |-> IF zapBuilt THEN Len(zapConfigs) + 1 ELSE NilRef,
            zapLogger |-> IF zapBuilt THEN Len(zapLoggers) + 1 ELSE NilRef,
            googleCloudLoggingClient |-> ref,
            googleCloudLoggingLogger |-> ref,
            commonKeysAndValues |-> mapRef,
            googleCloudLoggingDebugHook |-> useHook]
  IN /\ Running
     /\ loggers = <<>>
     /\ order \in Orders(DOMAIN OptionMap(opts))
     /\ UNCHANGED <<proc, threads, sharedWrites, history, arrays>>
     /\ IF ProjectIDMissing(opts)
          THEN /\ last' = [result EXCEPT !.err = "google cloud logging requires a GCP project ID"]
               /\ UNCHANGED <<loggers, maps, zapConfigs, zapLoggers, remote>>
        ELSE IF clientFails
          THEN /\ last' = [result EXCEPT !.err = "failed to create google cloud logging log",
                                         !.calls = calls1]
               /\ UNCHANGED <<loggers, maps, zapConfigs, zapLoggers, remote>>
        ELSE IF zapFails
          THEN /\ last' = [result EXCEPT !.err = "failed to create Zap logger",
                                         !.calls = calls2]
               /\ remote' = remote1
               /\ UNCHANGED <<loggers, maps, zapConfigs, zapLoggers>>
        ELSE /\ last' = [result EXCEPT !.child = Len(loggers) + 1,
                                       !.calls = calls2,
                                       !.zapFields = zapFields]
             /\ remote' = remote1
             /\ loggers' = Append(loggers, l)
             /\ maps' = IF opts.hasCommon THEN Append(maps, OptionMap(opts))
                        ELSE maps
             /\ zapConfigs' = IF zapBuilt
                                THEN Append(zapConfigs, createZapLoggerConfig(opts))
                                ELSE zapConfigs
             /\ zapLoggers' = IF zapBuilt
                                THEN Append(zapLoggers,
                                            [config |-> Len(zapConfigs) + 1,
                                             fields |-> zapFields])
                                ELSE zapLoggers


NewLogger(opt, clientOk, buildOk, order) ==
  NewLoggerImpl(opt, clientOk, buildOk, order,
                [NoLast EXCEPT !.op = "NewLogger", !.opt = opt])

(***************************************************************************)
(* NewCloudFunctionLogger (part_009 lines 48-89; gcplogging.go 46-87).     *)
(***************************************************************************)

\* GetArg (utils.go lines 55-65): the n:th value of args, if there is one.
GetArg(n, args) ==
  IF n < 0 THEN [value |-> "", ok |-> FALSE]
  ELSE IF Len(args) > n THEN [value |-> args[n + 1], ok |-> TRUE]
  ELSE [value |-> "", ok |-> FALSE]

DefaultCloudFunctionLogID == "cloudfunctions.googleapis.com/cloud-functions"

NewCloudFunctionLogger(args, env, clientOk) ==
  LET arg0 == GetArg(0, args)
      logID == IF arg0.ok /\ arg0.value # "" THEN arg0.value
               ELSE DefaultCloudFunctionLogID
      projectID == env["GCP_PROJECT"]
      functionName == env["FUNCTION_NAME"]
      functionRegion == env["FUNCTION_REGION"]
      monitoredRes == CloudFunctionResource(projectID, functionName, functionRegion)
      opts == <<[WithGoogleCloudLogging(projectID) EXCEPT
                   !.logID = logID, !.resource = monitoredRes]>>
      result == [NoLast EXCEPT !.op = "NewCloudFunctionLogger", !.env = env]
      failed(msg) ==
        /\ Running
        /\ loggers = <<>>
        /\ last' = [result EXCEPT !.err = msg]
        /\ UNCHANGED <<loggers, maps, zapConfigs, zapLoggers, remote, proc,
                       threads, sharedWrites, history, arrays>>
  IN IF projectID = "" THEN failed("env var GCP_PROJECT missing")
     ELSE IF functionName = "" THEN failed("env var FUNCTION_NAME missing")
     \* line 69 tests functionName a second time
     ELSE IF functionName = "" THEN failed("env var FUNCTION_REGION missing")
     ELSE NewLoggerImpl(opts, clientOk, TRUE, <<>>, [result EXCEPT !.opt = opts])

(***************************************************************************)
(* The length check of a key/value list (part_012 lines 90-92 and 275-277):*)
(* whether the call panics, and the list the rest of the call works on.    *)
(***************************************************************************)

\* A check that drops the dangling key of an odd-length list.
CheckKeysAndValuesDropLast(keysAndValues) ==
  [panics |-> FALSE,
   list |-> IF Len(keysAndValues) % 2 # 0
              THEN SubSeq(keysAndValues, 1, Len(keysAndValues) - 1)
              ELSE keysAndValues]

CheckKeysAndValues(keysAndValues) ==
  [panics |-> Len(keysAndValues) % 2 # 0, list |-> keysAndValues]

\* A derivation that takes the empty list.
EmptyKeysAndValuesAccepted(keysAndValues) == FALSE

\* Lines 86-88: a derivation panics when it is given no keys and values.
EmptyKeysAndValues(keysAndValues) == Len(keysAndValues) = 0

(***************************************************************************)
(* WithAdditionalKeysAndValues (part_012 lines 83-119).                    *)
(***************************************************************************)

\* A derivation that keeps the map reference copied by newLogger := *l and
\* applies the new pairs to it.
DeriveFieldsInPlace(cmap, keysAndValues, heap) ==
  IF cmap = NilRef
    THEN [heap |-> MustApplyKeysAndValues(keysAndValues, Len(heap) + 1,
                                          Append(heap, EmptyMap)),
          ref |-> Len(heap) + 1]
    ELSE [heap |-> MustApplyKeysAndValues(keysAndValues, cmap, heap),
          ref |-> cmap]

\* Lines 98-105: a new map, the copy of the base logger's pairs into it,
\* then the added pairs.
DeriveFields(cmap, keysAndValues, heap) ==
  LET ref == Len(heap) + 1
      copied == Append(heap, [k \in DOMAIN FieldsOf(cmap, heap) |->
                                FieldsOf(cmap, heap)[k]])
  IN [heap |-> MustApplyKeysAndValues(keysAndValues, ref, copied),
      ref |-> ref]

\* A zap logger made by With on the zap logger of the base: the fields of the
\* base stay bound and the list is bound after them.
zapBuildWithOnBase(baseFields, keysAndValues) == baseFields \o keysAndValues

\* Lines 107-116: the zap logger of the new logger is built again from the
\* zap configuration (Build has no fields bound) and With binds the list of
\* the new map to it.
zapBuildWith(baseFields, keysAndValues) == keysAndValues

\* A copy that makes the new logger one without the remote backend.
CopyLoggerWithoutRemote(base) ==
  [base EXCEPT !.googleCloudLoggingClient = NilRef,
               !.googleCloudLoggingLogger = NilRef]

\* newLogger := *l (line 96): every field of the base logger, the pointers
\* to the client, the remote logger and the zap configuration included.
CopyLogger(base) == base

WithAdditionalKeysAndValues(l, keysAndValues, buildOk, order) ==
  LET base == loggers[l]
      checked == CheckKeysAndValues(keysAndValues)
      derived == DeriveFields(base.commonKeysAndValues, checked.list, maps)
      newFields == derived.heap[derived.ref]
      list == MapToKeysAndValuesList(newFields, order)
      bound == IF base.zapLogger # NilRef
                 THEN zapBuildWith(zapLoggers[base.zapLogger].fields, list)
                 ELSE <<>>
      result == [NoLast EXCEPT !.op = "WithAdditionalKeysAndValues",
                               !.logger = l, !.kv = keysAndValues,
                               !.threshold = base.logLevel,
                               !.before = Fields(l)]
  IN /\ Running
     /\ l \in DOMAIN loggers
     /\ Len(loggers) < MaxLoggers
     /\ UNCHANGED <<zapConfigs, remote, threads, sharedWrites, history, arrays>>
     /\ IF EmptyKeysAndValues(keysAndValues) \/ checked.panics
          THEN /\ proc' = [proc EXCEPT !.status = "panicked"]
               /\ last' = [result EXCEPT !.panicked = TRUE]
               /\ UNCHANGED <<loggers, maps, zapLoggers>>
        ELSE IF base.zapLogger # NilRef /\ ~buildOk
          THEN /\ proc' = [proc EXCEPT !.status = "panicked"]
               /\ last' = [result EXCEPT !.panicked = TRUE,
                                         !.calls = <<"zap.Build">>,
                                         !.buildErr = "build error"]
               /\ UNCHANGED <<loggers, maps, zapLoggers>>
        ELSE /\ order \in Orders(DOMAIN newFields)
             /\ base.zapLogger = NilRef => order = CHOOSE o \in Orders(DOMAIN newFields) : TRUE
             /\ maps' = derived.heap
             /\ zapLoggers' =
                  IF base.zapLogger # NilRef
                    THEN Append(zapLoggers, [config |-> base.zapConfig,
                                             fields |-> bound])
                    ELSE zapLoggers
             /\ loggers' =
                  Append(loggers,
                         [CopyLogger(base) EXCEPT
                            !.commonKeysAndValues = derived.ref,
                            !.zapLogger = IF base.zapLogger # NilRef
                                            THEN Len(zapLoggers) + 1
                                            ELSE NilRef])
             /\ last' = [result EXCEPT
                           !.child = Len(loggers) + 1,
                           !.calls = IF base.zapLogger # NilRef
                                       THEN <<"zap.Build">> ELSE <<>>,
                           !.zapFields = IF base.zapLogger # NilRef
                                           THEN bound ELSE <<>>]
             /\ UNCHANGED proc

(***************************************************************************)
(* SetLogLevel (part_012 lines 199-208) and setZapLogLevel (zap.go 87-93). *)
(***************************************************************************)
setZapLogLevel(zapConfig, logLevel, heap) ==
  [heap EXCEPT ![zapConfig].level = ZapLevelOf(logLevel)]

SetLogLevel(l, logLevel) ==
  /\ Running
  /\ l \in DOMAIN loggers
  /\ loggers' = [loggers EXCEPT ![l].logLevel = logLevel]
  /\ zapConfigs' = IF loggers[l].zapLogger # NilRef
                     THEN setZapLogLevel(loggers[l].zapConfig, logLevel, zapConfigs)
                     ELSE zapConfigs
  /\ last' = [NoLast EXCEPT !.op = "SetLogLevel", !.logger = l,
                            !.level = logLevel, !.threshold = logLevel]
  /\ UNCHANGED <<maps, zapLoggers, remote, proc, threads, sharedWrites,
                 history, arrays>>

(***************************************************************************)
(* Flush (part_012 lines 227-241) and Close (lines 212-223).               *)
(***************************************************************************)

\* The backend calls of Flush and the error it returns.
FlushImpl(lg, flushErr, syncErr) ==
  IF lg.googleCloudLoggingLogger # NilRef /\ flushErr # NoErr
    THEN [calls |-> <<"remote.Flush">>, err |-> flushErr]
  ELSE LET c1 == IF lg.googleCloudLoggingLogger # NilRef
                   THEN <<"remote.Flush">> ELSE <<>>
       IN IF lg.zapLogger # NilRef
            THEN [calls |-> c1 \o <<"zap.Sync">>, err |-> syncErr]
            ELSE [calls |-> c1, err |-> NoErr]

\* A Close that gives up when the flush fails.
CloseImplReturnOnFlushError(lg, flushErr, syncErr, closeErr) ==
  LET f == FlushImpl(lg, flushErr, syncErr)
  IN IF f.err # NoErr THEN f
     ELSE IF lg.googleCloudLoggingClient # NilRef
       THEN [calls |-> f.calls \o <<"client.Close">>, err |-> closeErr]
       ELSE [calls |-> f.calls, err |-> NoErr]

\* A Close that releases the client and then reports the flush error first.
CloseImplFlushErrorFirst(lg, flushErr, syncErr, closeErr) ==
  LET f == FlushImpl(lg, flushErr, syncErr)
  IN IF lg.googleCloudLoggingClient # NilRef
       THEN [calls |-> f.calls \o <<"client.Close">>,
             err |-> IF f.err # NoErr THEN f.err ELSE closeErr]
       ELSE [calls |-> f.calls, err |-> f.err]

\* The backend calls of Close and the error it returns: the error of Flush
\* is dropped (line 214).
CloseImpl(lg, flushErr, syncErr, closeErr) ==
  LET f == FlushImpl(lg, flushErr, syncErr)
  IN IF lg.googleCloudLoggingClient # NilRef
       THEN [calls |-> f.calls \o <<"client.Close">>, err |-> closeErr]
       ELSE [calls |-> f.calls, err |-> NoErr]

\* The effect of a sequence of backend calls on the remote backend.
Contains(calls, c) == \E i \in DOMAIN calls : calls[i] = c

RemoteAfter(lg, calls) ==
  IF lg.googleCloudLoggingLogger # RealRef THEN remote
  ELSE [created |-> remote.created,
        open |-> IF Contains(calls, "client.Close") THEN FALSE ELSE remote.open,
        dirty |-> IF Contains(calls, "remote.Flush") \/ Contains(calls, "client.Close")
                    THEN FALSE
                  ELSE IF Contains(calls, "remote.Log") THEN TRUE
                  ELSE remote.dirty]

Flush(l, flushErr, syncErr) ==
  LET r == FlushImpl(loggers[l], flushErr, syncErr)
  IN /\ Running
     /\ l \in DOMAIN loggers
     /\ remote' = RemoteAfter(loggers[l], r.calls)
     /\ last' = [NoLast EXCEPT !.op = "Flush", !.logger = l,
                               !.threshold = loggers[l].logLevel,
                               !.calls = r.calls, !.err = r.err,
                               !.flushErr = flushErr, !.syncErr = syncErr]
     /\ UNCHANGED <<loggers, maps, zapConfigs, zapLoggers, proc, threads,
                    sharedWrites, history, arrays>>

Close(l, flushErr, syncErr, closeErr) ==
  LET r == CloseImpl(loggers[l], flushErr, syncErr, closeErr)
  IN /\ Running
     /\ l \in DOMAIN loggers
     /\ remote' = RemoteAfter(loggers[l], r.calls)
     /\ last' = [NoLast EXCEPT !.op = "Close", !.logger = l,
                               !.threshold = loggers[l].logLevel,
                               !.calls = r.calls, !.err = r.err,
                               !.flushErr = flushErr, !.syncErr = syncErr,
                               !.closeErr = closeErr]
     /\ UNCHANGED <<loggers, maps, zapConfigs, zapLoggers, proc, threads,
                    sharedWrites, history, arrays>>


(***************************************************************************)
(* The local backend: the zap calls of one log call.                       *)
(***************************************************************************)

\* levelToZapFlatLogFunc / levelToZapStructuredLogFunc (zap.go 105-138):
\* the zap level of the function selected, or "nil" for the default case.
levelToZapLogFunc(level) ==
  IF level \in Levels THEN [isNil |-> FALSE, level |-> ZapLevelOf(level)]
  ELSE [isNil |-> TRUE, level |-> ZapInfoLevel]

\* One call of the selected zap function on the zap logger zl: the function
\* is entered, the entry is written when the AtomicLevel of the logger's
\* configuration enables its level, and a fatal entry ends the process.
ZapCalls(zl, level) ==
  LET f == levelToZapLogFunc(level)
      enabled == f.level >= zapConfigs[zapLoggers[zl].config].level
  IN IF f.isNil THEN <<>>
     ELSE <<"zap.Log">> \o
          (IF enabled THEN <<"zap.Write">> ELSE <<>>) \o
          (IF f.level = ZapFatalLevel THEN <<"zap.os.Exit">> ELSE <<>>)

(***************************************************************************)
(* logImpl (part_012 lines 272-338): a structured entry.                   *)
(***************************************************************************)
LabelKey(key) == IF key[1] = "string" THEN key[2] ELSE Sprint(key)
LabelValue(value) == IF value[1] = "string" THEN value[2] ELSE Sprint(value)

LabelPut(labels, k, v) ==
  [x \in (DOMAIN labels) \cup {k} |-> IF x = k THEN v ELSE labels[x]]

\* Lines 288-298: the common pairs, in the enumeration order of the map.
RECURSIVE CommonLabels(_, _, _)
CommonLabels(common, order, labels) ==
  IF order = <<>> THEN labels
  ELSE CommonLabels(common, Tail(order),
                    LabelPut(labels, LabelKey(Head(order)),
                             LabelValue(common[Head(order)])))

\* Lines 300-316: the pairs of the call.
RECURSIVE CallLabels(_, _, _)
CallLabels(keysAndValues, count, labels) ==
  IF count >= Len(keysAndValues) THEN labels
  ELSE CallLabels(keysAndValues, count + 2,
                  LabelPut(labels, LabelKey(keysAndValues[count + 1]),
                           LabelValue(keysAndValues[count + 2])))

\* Labels built with the pairs of the call first and the common pairs last.
EntryLabelsCommonLast(common, order, keysAndValues) ==
  CommonLabels(common, order, CallLabels(keysAndValues, 0, EmptyLabels))

EntryLabels(common, order, keysAndValues) ==
  CallLabels(keysAndValues, 0, CommonLabels(common, order, EmptyLabels))

\* The gate of a formatted call (line 245).
FormattedGate(level, logLevel) == ~(level < logLevel)

\* A logImpl that calls zap before it hands the entry to the remote logger.
logImplCallsLocalFirst(lg, level) ==
  (IF lg.zapLogger # NilRef THEN ZapCalls(lg.zapLogger, level) ELSE <<>>) \o
  (IF lg.googleCloudLoggingLogger # NilRef
     THEN (IF lg.googleCloudLoggingDebugHook THEN <<"hook">>
           ELSE <<"remote.Log">>)
     ELSE <<>>)

\* The backend calls of logImpl on the logger lg for an even-length list.
logImplCalls(lg, level) ==
  (IF lg.googleCloudLoggingLogger # NilRef
     THEN (IF lg.googleCloudLoggingDebugHook THEN <<"hook">>
           ELSE <<"remote.Log">>)
     ELSE <<>>) \o
  (IF lg.zapLogger # NilRef THEN ZapCalls(lg.zapLogger, level) ELSE <<>>)

\* The backend calls of logImplf (lines 244-269).
logImplfCalls(lg, level) ==
  IF ~FormattedGate(level, lg.logLevel) THEN <<>>
  ELSE (IF lg.googleCloudLoggingLogger # NilRef THEN <<"remote.Log">>
        ELSE <<>>) \o
       (IF lg.zapLogger # NilRef THEN ZapCalls(lg.zapLogger, level) ELSE <<>>)

StructuredVerbs ==
  {"Trace", "Debug", "Print", "Info", "Warning", "Error", "Fatal", "Panic"}
FormattedVerbs ==
  {"Tracef", "Debugf", "Printf", "Infof", "Warningf", "Errorf", "Fatalf",
   "Panicf"}

\* The level each verb passes to logImpl / logImplf (lines 344-435).
VerbLevel(verb) ==
  CASE verb \in {"Trace", "Debug", "Print", "Tracef", "Debugf", "Printf"} -> Debug
    [] verb \in {"Info", "Infof"} -> Info
    [] verb \in {"Warning", "Warningf"} -> Warning
    [] verb \in {"Error", "Errorf"} -> Error
    [] verb \in {"Fatal", "Panic", "Fatalf", "Panicf"} -> Fatal

\* Fatalf never ends the process itself.
LoggerNeverExits(lg) == FALSE

\* Fatalf (lines 381-383): the Logger ends the process itself when it has
\* no zap logger.
LoggerMustExit(lg) == lg.zapLogger = NilRef

ProcAfter(calls) ==
  IF Contains(calls, "zap.os.Exit") \/ Contains(calls, "os.Exit")
    THEN [status |-> "exited",
          exits |-> proc.exits +
                    Cardinality({i \in DOMAIN calls :
                                   calls[i] \in {"zap.os.Exit", "os.Exit"}})]
    ELSE proc

\* The backend a call hands an entry to.
BackendOf(c) ==
  CASE c \in {"remote.Log", "hook"} -> "remote"
    [] c = "zap.Log" -> "local"
    [] OTHER -> "none"

\* The entries a log call hands to the backends, in the order of its calls:
\* n is the number of the log call, l its logger.
RECURSIVE Deliveries(_, _, _)
Deliveries(calls, l, n) ==
  IF calls = <<>> THEN <<>>
  ELSE (IF BackendOf(Head(calls)) # "none"
          THEN <<[backend |-> BackendOf(Head(calls)), logger |-> l, call |-> n]>>
          ELSE <<>>) \o Deliveries(Tail(calls), l, n)

HistoryAfter(l, calls) ==
  IF history.recording
    THEN [history EXCEPT !.calls = @ + 1,
                         !.deliveries = @ \o Deliveries(calls, l, history.calls + 1)]
    ELSE history

\* The structured verbs: Trace, Debug, Print, Info, Warning, Error, Fatal
\* and Panic call logImpl and return.
Log(l, verb, keysAndValues, order) ==
  LET lg == loggers[l]
      level == VerbLevel(verb)
      calls == logImplCalls(lg, level)
      checked == CheckKeysAndValues(keysAndValues)
      result == [NoLast EXCEPT !.op = "Log", !.verb = verb, !.logger = l,
                               !.level = level, !.threshold = lg.logLevel,
                               !.kv = keysAndValues, !.before = Fields(l)]
  IN /\ Running
     /\ l \in DOMAIN loggers
     /\ verb \in StructuredVerbs
     /\ UNCHANGED <<loggers, maps, zapConfigs, zapLoggers, threads,
                    sharedWrites>>
     /\ IF checked.panics
          THEN /\ proc' = [proc EXCEPT !.status = "panicked"]
               /\ last' = [result EXCEPT !.panicked = TRUE]
               /\ UNCHANGED <<remote, history, arrays>>
        ELSE /\ order \in Orders(DOMAIN Fields(l))
             /\ ~HasRemote(l) => order = CHOOSE o \in Orders(DOMAIN Fields(l)) : TRUE
             /\ remote' = RemoteAfter(lg, calls)
             /\ proc' = ProcAfter(calls)
             /\ history' = HistoryAfter(l, calls) /\ UNCHANGED arrays
             /\ last' =
                  [result EXCEPT
                     !.calls = calls,
                     !.labels = IF HasRemote(l)
                                  THEN EntryLabels(Fields(l), order, checked.list)
                                  ELSE EmptyLabels,
                     !.severity = IF HasRemote(l) THEN SeverityOf(level) ELSE "",
                     !.zapFields = IF HasZap(l)
                                     THEN zapLoggers[lg.zapLogger].fields \o checked.list
                                     ELSE <<>>]

\* The formatted verbs: Tracef, Debugf, Printf, Infof, Warningf and Errorf
\* call logImplf; Fatalf and Panicf then end the process when the logger has
\* no zap logger (with one, zap's Fatalf has ended it). The remote entry has
\* no labels (lines 256-259); the zap function is the method of l.zapLogger
\* (line 264), the logger made by With(keysAndValues...) at lines 115 and
\* 168, which writes the fields bound to it with every entry.
Logf(l, verb) ==
  LET lg == loggers[l]
      level == VerbLevel(verb)
      calls1 == logImplfCalls(lg, level)
      calls == IF verb \in {"Fatalf", "Panicf"}
                    /\ ~Contains(calls1, "zap.os.Exit")
                    /\ LoggerMustExit(lg)
                 THEN calls1 \o <<"os.Exit">>
                 ELSE calls1
  IN /\ Running
     /\ l \in DOMAIN loggers
     /\ verb \in FormattedVerbs
     /\ remote' = RemoteAfter(lg, calls)
     /\ proc' = ProcAfter(calls)
     /\ history' = HistoryAfter(l, calls) /\ UNCHANGED arrays
     /\ last' = [NoLast EXCEPT
                   !.op = "Logf", !.verb = verb, !.logger = l,
                   !.level = level, !.threshold = lg.logLevel,
                   !.before = Fields(l), !.calls = calls,
                   !.severity = IF Contains(calls, "remote.Log")
                                  THEN SeverityOf(level) ELSE "",
                   !.zapFields = IF Contains(calls, "zap.Write")
                                   THEN zapLoggers[lg.zapLogger].fields
                                   ELSE <<>>]
     /\ UNCHANGED <<loggers, maps, zapConfigs, zapLoggers, threads,
                    sharedWrites>>

(***************************************************************************)
(* Inputs.                                                                 *)
(***************************************************************************)
ZapLevels == {ZapDebugLevel, ZapInfoLevel, ZapWarnLevel, ZapErrorLevel,
              ZapFatalLevel}
FlushErrors == {NoErr, "flush error"}
SyncErrors == {NoErr, "sync error"}
CloseErrors == {NoErr, "close error"}

AllOrders == UNION {Orders(S) : S \in SUBSET Keys}

\* The enumeration orders of the map of common fields a list of options
\* gives.
OptionOrders(opt) == Orders(DOMAIN OptionMap(ApplyOptions(opt, DefaultOptions)))

\* Key/value lists of the calls: empty, a pair that replaces a value, keys
\* of different types with the same rendering, values that are not strings,
\* and a key given twice in one list.
FieldLists ==
  {<<>>,
   <<StrVal("k1"), BoolVal(FALSE)>>,
   <<StrVal("1"), StrVal("v1")>>,
   <<IntVal(1), IntVal(12)>>,
   <<StrVal("k1"), IntVal(12), StrVal("k1"), StrVal("v1")>>}

(***************************************************************************)
(* Spec: one caller deriving loggers and writing structured entries.       *)
(***************************************************************************)
FieldOptionLists ==
  {<<>>,
   <<WithGoogleCloudLogging("project")>>,
   <<WithCommonKeysAndValues(<<StrVal("k1"), StrVal("v1")>>)>>,
   <<WithGoogleCloudLogging("project"),
     WithCommonKeysAndValues(<<StrVal("k1"), StrVal("v1"), IntVal(1), BoolVal(FALSE)>>)>>,
   <<WithZap(NoZapConfig),
     WithCommonKeysAndValues(<<StrVal("k1"), StrVal("v1")>>)>>}

Next ==
  \/ /\ last.op = "none"
     /\ \E opt \in FieldOptionLists, buildOk \in BOOLEAN :
          \E order \in OptionOrders(opt) : NewLogger(opt, TRUE, buildOk, order)
  \/ \E l \in DOMAIN loggers, kv \in FieldLists, buildOk \in BOOLEAN :
       \E order \in Orders(DOMAIN Fields(l) \cup KeysOf(kv)) :
         WithAdditionalKeysAndValues(l, kv, buildOk, order)
  \/ \E l \in DOMAIN loggers, verb \in {"Warning"}, kv \in FieldLists :
       \E order \in Orders(DOMAIN Fields(l)) : Log(l, verb, kv, order)
  \/ \E l \in DOMAIN loggers, verb \in {"Infof"} : Logf(l, verb)

Spec == Init /\ [][Next]_vars

(***************************************************************************)
(* SpecLevels: one caller, every verb, on loggers of every backend         *)
(* configuration, with changes of the level.                               *)
(***************************************************************************)
MaxLevelLoggers == 2

LevelOptionLists ==
  {base \o lv :
     base \in {<<>>, <<WithZap(NoZapConfig)>>,
               <<WithGoogleCloudLogging("project")>>,
               <<WithGoogleCloudLogging("project"), WithZap(NoZapConfig)>>},
     lv \in {<<>>, <<WithLevel(Warning)>>}}

\* The lists of the derivations and of the structured calls: even-length
\* lists and lists with a dangling key.
LevelDeriveLists ==
  {<<StrVal("k1"), StrVal("v1")>>,
   <<StrVal("k1"), StrVal("v1"), StrVal("1")>>}

LevelFieldLists ==
  {<<>>, <<StrVal("k1"), IntVal(12)>>, <<StrVal("1")>>,
   <<StrVal("k1"), IntVal(12), StrVal("1")>>}

NextLevels ==
  \/ /\ last.op = "none"
     /\ \E opt \in LevelOptionLists : NewLogger(opt, TRUE, TRUE, <<>>)
  \/ \E l \in DOMAIN loggers, kv \in LevelDeriveLists, order \in Orders({StrVal("k1")}) :
       /\ Len(loggers) < MaxLevelLoggers
       /\ WithAdditionalKeysAndValues(l, kv, TRUE, order)
  \/ \E l \in DOMAIN loggers, lv \in {Info, Error, Fatal} : SetLogLevel(l, lv)
  \/ \E l \in DOMAIN loggers, verb \in StructuredVerbs, kv \in LevelFieldLists :
       \E order \in Orders(DOMAIN Fields(l)) : Log(l, verb, kv, order)
  \/ \E l \in DOMAIN loggers, verb \in FormattedVerbs : Logf(l, verb)

SpecLevels == Init /\ [][NextLevels]_vars

(***************************************************************************)
(* SpecClose: one caller writing, flushing and closing, with every outcome *)
(* of the backends' flush, sync and close.                                 *)
(***************************************************************************)
NextClose ==
  \/ /\ last.op = "none"
     /\ \E opt \in LevelOptionLists : NewLogger(opt, TRUE, TRUE, <<>>)
  \/ \E l \in DOMAIN loggers, order \in Orders({StrVal("k1")}) :
       /\ Len(loggers) < MaxLevelLoggers
       /\ WithAdditionalKeysAndValues(l, <<StrVal("k1"), StrVal("v1")>>, TRUE, order)
  \/ \E l \in DOMAIN loggers, lv \in {Error} : SetLogLevel(l, lv)
  \/ \E l \in DOMAIN loggers, verb \in {"Info", "Fatal"} : Log(l, verb, <<>>, <<>>)
  \/ \E l \in DOMAIN loggers, verb \in {"Debugf", "Errorf", "Fatalf"} : Logf(l, verb)
  \/ \E l \in DOMAIN loggers, flushErr \in FlushErrors, syncErr \in SyncErrors :
       Flush(l, flushErr, syncErr)
  \/ \E l \in DOMAIN loggers, flushErr \in FlushErrors, syncErr \in SyncErrors,
        closeErr \in CloseErrors : Close(l, flushErr, syncErr, closeErr)

SpecClose == Init /\ [][NextClose]_vars

(***************************************************************************)
(* SpecNew: construction from every list of options.                       *)
(***************************************************************************)
Options ==
  {WithLevel(lv) : lv \in {Info, Fatal}} \cup
  {WithZap(NoZapConfig), WithZap(UserZapConfig(ZapErrorLevel))} \cup
  {WithGoogleCloudLogging(p) : p \in {"", "project"}} \cup
  {WithCommonKeysAndValues(kv) : kv \in {<<>>, <<StrVal("k1"), StrVal("v1")>>}} \cup
  {WithUnitTestHook}

RECURSIVE OptionLists(_)
OptionLists(n) ==
  IF n = 0 THEN {<<>>}
  ELSE LET shorter == OptionLists(n - 1)
       IN shorter \cup {Append(l, o) : l \in shorter, o \in Options}

NextNew ==
  /\ last.op = "none"
  /\ \E opt \in OptionLists(MaxOpts), clientOk \in BOOLEAN, buildOk \in BOOLEAN :
       \E order \in OptionOrders(opt) : NewLogger(opt, clientOk, buildOk, order)

SpecNew == Init /\ [][NextNew]_vars


(***************************************************************************)
(* Concurrent callers of one Logger: logImpl and                           *)
(* WithAdditionalKeysAndValues step by step, one step for each access to   *)
(* memory another caller can reach.                                        *)
(***************************************************************************)

\* A map is shared when a published logger holds it.
SharedMap(ref) ==
  \E l \in DOMAIN loggers : loggers[l].commonKeysAndValues = ref

\* toMap[key] = value by a concurrent caller.
WriteMap(ref, key, value) ==
  /\ maps' = [maps EXCEPT ![ref] = MapPut(@, key, value)]
  /\ sharedWrites' = IF SharedMap(ref) THEN sharedWrites \cup {ref}
                     ELSE sharedWrites

\* The map a derivation fills when it keeps the reference copied from the
\* base logger.
NewMapRefOfBase(cmap, heap) ==
  IF cmap = NilRef THEN Len(heap) + 1 ELSE cmap

\* The map a derivation fills: a new one (part_012 line 99).
NewMapRef(cmap, heap) == Len(heap) + 1

\* logImpl lines 275-286: the length check and the new labels map.
LogImplBegin(t, l, verb, keysAndValues) ==
  /\ Running
  /\ threads[t].pc = "idle"
  /\ l \in DOMAIN loggers
  /\ verb \in StructuredVerbs
  /\ Len(keysAndValues) % 2 = 0
  /\ threads' = [threads EXCEPT ![t] =
                   [IdleThread EXCEPT
                      !.pc = IF HasRemote(l) THEN "log_common" ELSE "log_emit",
                      !.logger = l, !.verb = verb, !.kv = keysAndValues]]
  /\ UNCHANGED <<loggers, maps, zapConfigs, zapLoggers, remote, proc, last,
                 sharedWrites, history, arrays>>

\* One iteration of the loop of lines 288-298 over the logger's map.
LogImplCommon(t, key) ==
  LET th == threads[t]
      common == Fields(th.logger)
  IN /\ Running
     /\ th.pc = "log_common"
     /\ key \in (DOMAIN common) \ th.visited
     /\ threads' = [threads EXCEPT
                      ![t].visited = th.visited \cup {key},
                      ![t].labels = LabelPut(th.labels, LabelKey(key),
                                             LabelValue(common[key]))]
     /\ UNCHANGED <<loggers, maps, zapConfigs, zapLoggers, remote, proc,
                    last, sharedWrites, history, arrays>>

\* Lines 300-337: the pairs of the call, the entry handed to the remote
\* backend, the call of zap.
LogImplEmit(t) ==
  LET th == threads[t]
      lg == loggers[th.logger]
      level == VerbLevel(th.verb)
      calls == logImplCalls(lg, level)
  IN /\ Running
     /\ \/ th.pc = "log_emit"
        \/ th.pc = "log_common" /\ DOMAIN Fields(th.logger) \subseteq th.visited
     /\ threads' = [threads EXCEPT ![t] = IdleThread]
     /\ remote' = RemoteAfter(lg, calls)
     /\ proc' = ProcAfter(calls)
     /\ history' = HistoryAfter(th.logger, calls) /\ UNCHANGED arrays
     /\ last' = [NoLast EXCEPT
                   !.op = "Log", !.verb = th.verb, !.logger = th.logger,
                   !.level = level, !.threshold = lg.logLevel,
                   !.kv = th.kv, !.before = Fields(th.logger),
                   !.calls = calls,
                   !.labels = IF HasRemote(th.logger)
                                THEN CallLabels(th.kv, 0, th.labels)
                                ELSE EmptyLabels,
                   !.severity = IF HasRemote(th.logger) THEN SeverityOf(level)
                                ELSE "",
                   !.zapFields = IF HasZap(th.logger)
                                   THEN zapLoggers[lg.zapLogger].fields \o th.kv
                                   ELSE <<>>]
     /\ UNCHANGED <<loggers, maps, zapConfigs, zapLoggers, sharedWrites>>

\* The derivations in progress: each will publish one logger.
Deriving == {t \in DOMAIN threads : threads[t].pc \in {"with_copy", "with_apply"}}

\* WithAdditionalKeysAndValues lines 86-99: the checks, the copy of the
\* struct and the new map.
WithBegin(t, l, keysAndValues) ==
  LET ref == NewMapRef(loggers[l].commonKeysAndValues, maps)
  IN /\ Running
     /\ threads[t].pc = "idle"
     /\ l \in DOMAIN loggers
     /\ Len(loggers) + Cardinality(Deriving) < MaxLoggers
     /\ Len(keysAndValues) > 0 /\ Len(keysAndValues) % 2 = 0
     /\ maps' = IF ref = Len(maps) + 1 THEN Append(maps, EmptyMap) ELSE maps
     /\ threads' = [threads EXCEPT ![t] =
                      [IdleThread EXCEPT !.pc = "with_copy", !.logger = l,
                                         !.kv = keysAndValues, !.newRef = ref]]
     /\ UNCHANGED <<loggers, zapConfigs, zapLoggers, remote, proc, last,
                    sharedWrites, history, arrays>>

\* One iteration of the loop of lines 100-102.
WithCopy(t, key) ==
  LET th == threads[t]
      common == Fields(th.logger)
  IN /\ Running
     /\ th.pc = "with_copy"
     /\ key \in (DOMAIN common) \ th.visited
     /\ WriteMap(th.newRef, key, common[key])
     /\ threads' = [threads EXCEPT ![t].visited = th.visited \cup {key}]
     /\ UNCHANGED <<loggers, zapConfigs, zapLoggers, remote, proc, last,
                  history, arrays>>

\* One iteration of the loop of MustApplyKeysAndValues (utils.go 22-30),
\* called at line 105.
WithApply(t) ==
  LET th == threads[t]
  IN /\ Running
     /\ \/ th.pc = "with_apply"
        \/ th.pc = "with_copy" /\ DOMAIN Fields(th.logger) \subseteq th.visited
     /\ th.count < Len(th.kv)
     /\ WriteMap(th.newRef, th.kv[th.count + 1], th.kv[th.count + 2])
     /\ threads' = [threads EXCEPT ![t].pc = "with_apply",
                                   ![t].count = th.count + 2]
     /\ UNCHANGED <<loggers, zapConfigs, zapLoggers, remote, proc, last,
                  history, arrays>>

\* Lines 107-118: the zap logger of the new fields, and the return of the
\* new logger.
WithReturn(t, buildOk, order) ==
  LET th == threads[t]
      base == loggers[th.logger]
      newFields == maps[th.newRef]
      list == MapToKeysAndValuesList(newFields, order)
      bound == IF base.zapLogger # NilRef
                 THEN zapBuildWith(zapLoggers[base.zapLogger].fields, list)
                 ELSE <<>>
      result == [NoLast EXCEPT !.op = "WithAdditionalKeysAndValues",
                               !.logger = th.logger, !.kv = th.kv,
                               !.threshold = base.logLevel,
                               !.before = Fields(th.logger)]
  IN /\ Running
     /\ th.pc = "with_apply"
     /\ th.count >= Len(th.kv)
     /\ threads' = [threads EXCEPT ![t] = IdleThread]
     /\ UNCHANGED <<maps, zapConfigs, remote, sharedWrites, history, arrays>>
     /\ IF base.zapLogger # NilRef /\ ~buildOk
          THEN /\ proc' = [proc EXCEPT !.status = "panicked"]
               /\ last' = [result EXCEPT !.panicked = TRUE,
                                         !.calls = <<"zap.Build">>,
                                         !.buildErr = "build error"]
               /\ UNCHANGED <<loggers, zapLoggers>>
        ELSE /\ order \in Orders(DOMAIN newFields)
             /\ base.zapLogger = NilRef =>
                  order = CHOOSE o \in Orders(DOMAIN newFields) : TRUE
             /\ zapLoggers' =
                  IF base.zapLogger # NilRef
                    THEN Append(zapLoggers, [config |-> base.zapConfig,
                                             fields |-> bound])
                    ELSE zapLoggers
             /\ loggers' =
                  Append(loggers,
                         [CopyLogger(base) EXCEPT
                            !.commonKeysAndValues = th.newRef,
                            !.zapLogger = IF base.zapLogger # NilRef
                                            THEN Len(zapLoggers) + 1
                                            ELSE NilRef])
             /\ last' = [result EXCEPT
                           !.child = Len(loggers) + 1,
                           !.calls = IF base.zapLogger # NilRef
                                       THEN <<"zap.Build">> ELSE <<>>,
                           !.zapFields = IF base.zapLogger # NilRef
                                           THEN bound ELSE <<>>]
             /\ UNCHANGED proc

ConcOptionLists ==
  {<<WithGoogleCloudLogging("project"),
     WithCommonKeysAndValues(<<StrVal("k1"), StrVal("v1"), IntVal(1), BoolVal(FALSE)>>)>>,
   <<WithZap(NoZapConfig), WithGoogleCloudLogging("project"),
     WithCommonKeysAndValues(<<StrVal("k1"), StrVal("v1")>>)>>}

ConcFieldLists ==
  {<<StrVal("k1"), BoolVal(FALSE)>>,
   <<StrVal("1"), StrVal("v1"), IntVal(1), IntVal(12)>>}

\* Every concurrent call is made on the logger NewLogger returned.
NextConc ==
  \/ /\ last.op = "none"
     /\ \E opt \in ConcOptionLists :
          \E order \in OptionOrders(opt) : NewLogger(opt, TRUE, TRUE, order)
  \/ \E t \in DOMAIN threads, kv \in {<<>>, <<StrVal("k1"), BoolVal(FALSE)>>} :
       LogImplBegin(t, 1, "Info", kv)
  \/ \E t \in DOMAIN threads, key \in Keys : LogImplCommon(t, key)
  \/ \E t \in DOMAIN threads : LogImplEmit(t)
  \/ \E t \in DOMAIN threads, kv \in ConcFieldLists : WithBegin(t, 1, kv)
  \/ \E t \in DOMAIN threads, key \in Keys : WithCopy(t, key)
  \/ \E t \in DOMAIN threads : WithApply(t)
  \/ \E t \in DOMAIN threads, order \in AllOrders : WithReturn(t, TRUE, order)
  \/ \E verb \in {"Errorf"} : 1 \in DOMAIN loggers /\ Logf(1, verb)

SpecConc == Init /\ [][NextConc]_vars

(***************************************************************************)
(* SpecOptions: construction from lists of options of every kind, two      *)
(* values for each setting.                                                *)
(***************************************************************************)
AllOptions ==
  {WithLevel(lv) : lv \in {Info, Fatal}} \cup
  {WithZap(NoZapConfig), WithZap(UserZapConfig(ZapErrorLevel))} \cup
  {WithGoogleCloudLogging("project"),
   [WithGoogleCloudLogging("other") EXCEPT !.logID = "log"]} \cup
  {WithCommonKeysAndValues(kv) :
     kv \in {<<StrVal("k1"), StrVal("v1")>>, <<StrVal("1"), IntVal(12)>>}} \cup
  {WithOutputPaths(paths) : paths \in {<<"stdout">>, <<"file">>}} \cup
  {WithErrorOutputPaths(paths) : paths \in {<<"stderr">>, <<"file">>}} \cup
  {WithOutputHints(hints) : hints \in {<<>>, <<"JSONFormat">>}}

RECURSIVE AllOptionLists(_)
AllOptionLists(n) ==
  IF n = 0 THEN {<<>>}
  ELSE LET shorter == AllOptionLists(n - 1)
       IN shorter \cup {Append(l, o) : l \in shorter, o \in AllOptions}

NextOptions ==
  /\ last.op = "none"
  /\ \E opt \in AllOptionLists(MaxOpts) :
       \E order \in OptionOrders(opt) : NewLogger(opt, TRUE, TRUE, order)

SpecOptions == Init /\ [][NextOptions]_vars

(***************************************************************************)
(* SpecEnv: a logger for a Cloud Function, made from the environment, and  *)
(* its use.                                                                *)
(***************************************************************************)
Environments == [EnvVars -> {"", "a", "b"}]

NextEnv ==
  \/ /\ last.op = "none"
     /\ \E args \in {<<>>, <<"">>, <<"mylog">>}, env \in Environments,
           clientOk \in BOOLEAN : NewCloudFunctionLogger(args, env, clientOk)
  \/ \E l \in DOMAIN loggers, order \in Orders({StrVal("k1")}) :
       /\ Len(loggers) < MaxLevelLoggers
       /\ WithAdditionalKeysAndValues(l, <<StrVal("k1"), StrVal("v1")>>, TRUE, order)
  \/ \E l \in DOMAIN loggers, lv \in {Error} : SetLogLevel(l, lv)
  \/ \E l \in DOMAIN loggers, verb \in {"Info", "Error"} : Log(l, verb, <<>>, <<>>)
  \/ \E l \in DOMAIN loggers, verb \in {"Debugf", "Fatalf"} : Logf(l, verb)
  \/ \E l \in DOMAIN loggers, flushErr \in FlushErrors : Flush(l, flushErr, NoErr)
  \/ \E l \in DOMAIN loggers, closeErr \in CloseErrors :
       Close(l, NoErr, NoErr, closeErr)

SpecEnv == Init /\ [][NextEnv]_vars

(***************************************************************************)
(* SpecOrder: one caller making log calls one after the other, with the    *)
(* record of the entries the backends are handed.                          *)
(***************************************************************************)
MaxCalls == 3

InitOrder ==
  /\ InitProgram
  /\ history = [NoHistory EXCEPT !.recording = TRUE]

NextOrder ==
  \/ /\ last.op = "none"
     /\ \E opt \in LevelOptionLists : NewLogger(opt, TRUE, TRUE, <<>>)
  \/ \E l \in DOMAIN loggers, order \in Orders({StrVal("k1")}) :
       /\ Len(loggers) < MaxLevelLoggers
       /\ WithAdditionalKeysAndValues(l, <<StrVal("k1"), StrVal("v1")>>, TRUE, order)
  \/ \E l \in DOMAIN loggers, verb \in {"Debug", "Error"} :
       \E order \in Orders(DOMAIN Fields(l)) :
         /\ history.calls < MaxCalls
         /\ Log(l, verb, <<>>, order)
  \/ \E l \in DOMAIN loggers, verb \in {"Infof", "Errorf"} :
       /\ history.calls < MaxCalls
       /\ Logf(l, verb)

SpecOrder == InitOrder /\ [][NextOrder]_vars

(***************************************************************************)
(* Properties.                                                             *)
(***************************************************************************)
IsNullLogger(l) == ~HasRemote(l) /\ ~HasZap(l)

\* The number of occurrences of the backend call c in a sequence of calls.
Count(calls, c) == Cardinality({i \in DOMAIN calls : calls[i] = c})

\* The value a flat list gives to key k: the one of its last pair with k.
LastValue(G, k) ==
  G[(CHOOSE i \in DOMAIN G :
       /\ i % 2 = 1 /\ G[i] = k
       /\ \A j \in DOMAIN G : (j % 2 = 1 /\ G[j] = k) => j <= i) + 1]

\* F union G, with G taking precedence.
Merged(F, G) ==
  [k \in (DOMAIN F) \cup KeysOf(G) |->
     IF k \in KeysOf(G) THEN LastValue(G, k) ELSE F[k]]

\* C1: a derivation with a non-empty even-length list G on a logger with
\* common fields F returns a new logger whose common fields are F union G,
\* G taking precedence, whatever the depth of the logger derived from.
C1_FieldMerge ==
  (/\ last.op = "WithAdditionalKeysAndValues"
   /\ Len(last.kv) > 0 /\ Len(last.kv) % 2 = 0
   /\ ~last.panicked) =>
    /\ last.child = Len(loggers)
    /\ last.child # last.logger
    /\ Fields(last.child) = Merged(last.before, last.kv)

\* A derivation from a derived logger whose fields differ from the root's,
\* with a key of the list already among the fields under another value.
C1_Witness ==
  /\ last.op = "WithAdditionalKeysAndValues"
  /\ ~last.panicked
  /\ last.logger > 1
  /\ last.before # Fields(1)
  /\ \E k \in KeysOf(last.kv) \cap DOMAIN last.before :
       last.before[k] # LastValue(last.kv, k)

\* C2: no step changes the common fields of a logger that already exists.
C2_ExistingFieldsUnchanged ==
  [][\A l \in DOMAIN loggers :
       /\ l \in DOMAIN loggers'
       /\ FieldsOf(loggers'[l].commonKeysAndValues, maps') = Fields(l)]_vars

\* A second derivation from the root, on a key the root and the first
\* derived logger hold, after which the three loggers differ.
C2_Witness ==
  /\ last.op = "WithAdditionalKeysAndValues"
  /\ ~last.panicked
  /\ last.logger = 1 /\ last.child = 3
  /\ KeysOf(last.kv) \cap DOMAIN Fields(1) \cap DOMAIN Fields(2) # {}
  /\ Fields(1) # Fields(3) /\ Fields(2) # Fields(3) /\ Fields(1) # Fields(2)

\* C8: the labels of a structured entry submitted to the remote backend are
\* the common fields merged with the fields of the call, rendered to
\* strings, the call's value being the one submitted for a key in both; the
\* common fields are as they were before the call.
RenderedKeys(S) == {Sprint(k) : k \in S}

\* labels are the fields F merged with the list G, rendered: every rendered
\* key of F and G and no other, the value of G (the last for that key) for a
\* key of G, and a value F gives to the key otherwise.
CarriesMerged(labels, F, G) ==
  /\ DOMAIN labels = RenderedKeys((DOMAIN F) \cup KeysOf(G))
  /\ \A k \in KeysOf(G) :
       \E i \in DOMAIN G :
         /\ i % 2 = 1 /\ Sprint(G[i]) = Sprint(k)
         /\ \A j \in DOMAIN G :
              (j % 2 = 1 /\ Sprint(G[j]) = Sprint(k)) => j <= i
         /\ labels[Sprint(k)] = Sprint(G[i + 1])
  /\ \A k \in DOMAIN F :
       Sprint(k) \notin RenderedKeys(KeysOf(G)) =>
         \E k2 \in DOMAIN F :
           /\ Sprint(k2) = Sprint(k)
           /\ labels[Sprint(k)] = Sprint(F[k2])

C8_RemoteLabels ==
  (/\ last.op = "Log" /\ ~last.panicked
   /\ HasRemote(last.logger)) =>
    /\ Fields(last.logger) = last.before
    /\ Count(last.calls, "remote.Log") + Count(last.calls, "hook") = 1
    /\ CarriesMerged(last.labels, Fields(last.logger), last.kv)

\* A structured call on a derived logger with a remote backend, a key of
\* the call being a common key under another value, and a value that is not
\* a string being rendered.
C8_Witness ==
  /\ last.op = "Log" /\ ~last.panicked
  /\ HasRemote(last.logger)
  /\ last.logger > 1
  /\ \E k \in KeysOf(last.kv) \cap DOMAIN Fields(last.logger) :
       /\ Fields(last.logger)[k] # LastValue(last.kv, k)
       /\ LastValue(last.kv, k)[1] # "string"
  /\ \E k \in DOMAIN Fields(last.logger) : k \notin KeysOf(last.kv)


LogOps == {"Log", "Logf"}
FatalVerbs == {"Fatal", "Fatalf", "Panic", "Panicf"}
EmitCalls == {"remote.Log", "hook", "zap.Log"}

\* C3: a log call below the logger's threshold reaches no backend (no entry
\* is handed to the remote logger or to the unit-test hook, none is written
\* by zap), and a call at or above it reaches every active backend exactly
\* once.
C3_LevelGate ==
  (last.op \in LogOps /\ ~last.panicked) =>
    IF last.level < last.threshold
      THEN \A i \in DOMAIN last.calls :
             last.calls[i] \notin {"remote.Log", "hook", "zap.Write"}
      ELSE /\ HasRemote(last.logger) =>
                Count(last.calls, "remote.Log") + Count(last.calls, "hook") = 1
           /\ HasZap(last.logger) => Count(last.calls, "zap.Log") = 1

\* C4: every Fatal-level verb ends the process, once, after the event has
\* been handed to the active backends: zap's fatal call ends it when there
\* is a local backend, the Logger otherwise.
C4_FatalTerminates ==
  (last.op \in LogOps /\ last.verb \in FatalVerbs /\ ~last.panicked) =>
    /\ proc.status = "exited"
    /\ proc.exits = 1
    /\ HasRemote(last.logger) =>
         Count(last.calls, "remote.Log") + Count(last.calls, "hook") = 1
    /\ IF HasZap(last.logger)
         THEN Count(last.calls, "zap.os.Exit") = 1 /\ Count(last.calls, "os.Exit") = 0
         ELSE Count(last.calls, "os.Exit") = 1

\* C7 as stated: on a logger with no backend every log verb with an
\* even-length list makes no backend call, does not panic, does not end the
\* process and changes nothing.
C7_NullLoggerNoEffect ==
  [][(/\ last'.op \in LogOps
      /\ IsNullLogger(last'.logger)
      /\ Len(last'.kv) % 2 = 0) =>
       /\ last'.calls = <<>>
       /\ ~last'.panicked
       /\ proc' = proc
       /\ UNCHANGED <<loggers, maps, zapConfigs, zapLoggers, remote>>]_vars

\* C7, amended: on a logger with no backend every log verb with an
\* even-length list makes no backend call, does not panic and changes no
\* logger; Fatalf and Panicf end the process, the other verbs do not.
C7_NullLoggerOnlyFatalfExits ==
  [][(/\ last'.op \in LogOps
      /\ IsNullLogger(last'.logger)
      /\ Len(last'.kv) % 2 = 0) =>
       /\ ~last'.panicked
       /\ \A i \in DOMAIN last'.calls : last'.calls[i] \notin EmitCalls
       /\ UNCHANGED <<loggers, maps, zapConfigs, zapLoggers, remote>>
       /\ IF last'.verb \in {"Fatalf", "Panicf"}
            THEN /\ proc'.status = "exited"
                 /\ proc'.exits = proc.exits + 1
            ELSE /\ proc' = proc
                 /\ last'.calls = <<>>]_vars

\* A Fatalf on a derived logger with no backend, which ended the process.
C7_Witness ==
  /\ last.op = "Logf" /\ last.verb = "Fatalf"
  /\ IsNullLogger(last.logger)
  /\ last.logger > 1
  /\ proc.status = "exited"

C6_FlushBeforeRelease ==
  (last.op = "Close" /\ HasRemote(last.logger)) =>
    /\ Count(last.calls, "remote.Flush") = 1
    /\ Count(last.calls, "client.Close") = 1
    /\ \E i, j \in DOMAIN last.calls :
         /\ i < j
         /\ last.calls[i] = "remote.Flush"
         /\ last.calls[j] = "client.Close"
    /\ remote.open = FALSE

\* A Close whose flush failed on a logger with both backends, after an
\* entry was handed to the remote backend.
C6_Witness ==
  /\ last.op = "Close" /\ HasRemote(last.logger) /\ HasZap(last.logger)
  /\ last.flushErr # NoErr
  /\ Contains(last.calls, "client.Close")

\* The project id the last remote option of a list gives is empty.
LastRemoteProjectEmpty(opt) ==
  \E i \in DOMAIN opt :
    /\ opt[i].kind = "WithGoogleCloudLogging"
    /\ opt[i].gcpProjectID = ""
    /\ \A j \in DOMAIN opt : j > i => opt[j].kind # "WithGoogleCloudLogging"

\* C10: NewLogger with the remote backend enabled and an empty project id
\* returns no logger and an error, and builds no backend.
C10_EmptyProjectFails ==
  (last.op = "NewLogger" /\ LastRemoteProjectEmpty(last.opt)) =>
    /\ last.err # NoErr
    /\ last.child = NilRef
    /\ loggers = <<>>
    /\ last.calls = <<>>
    /\ remote.created = 0 /\ ~remote.open
    /\ zapConfigs = <<>> /\ zapLoggers = <<>>

\* A construction with a local backend and two remote options, the last of
\* which has the empty project id.
C10_Witness ==
  /\ last.op = "NewLogger" /\ LastRemoteProjectEmpty(last.opt)
  /\ \E i, j \in DOMAIN last.opt :
       /\ last.opt[i].kind = "WithGoogleCloudLogging"
       /\ last.opt[i].gcpProjectID # ""
       /\ last.opt[j].kind = "WithZap"
  /\ last.err # NoErr


\* C9: concurrent log calls and derivations on one logger write nothing
\* that the callers share, and every entry handed to the remote backend
\* carries the fields of its own call merged with the logger's common
\* fields, and nothing else.
C9_ConcurrentCallsIsolated ==
  /\ sharedWrites = {}
  /\ (last.op = "Log" /\ HasRemote(last.logger)) =>
       CarriesMerged(last.labels, Fields(last.logger), last.kv)
  /\ (last.op = "Logf") => last.labels = EmptyLabels
  /\ \A t \in DOMAIN threads :
       threads[t].pc = "log_common" =>
         DOMAIN threads[t].labels \subseteq
           RenderedKeys(DOMAIN Fields(threads[t].logger))

\* An entry of a call with fields is handed to the remote backend while
\* another caller is in the middle of a derivation on the same logger,
\* having written the first of its two pairs.
C9_Witness ==
  /\ last.op = "Log" /\ HasRemote(last.logger)
  /\ last.kv # <<>>
  /\ \E t \in DOMAIN threads :
       /\ threads[t].pc = "with_apply"
       /\ threads[t].logger = last.logger
       /\ threads[t].count > 0 /\ threads[t].count < Len(threads[t].kv)

\* An option of the given kind is in the list.
Requested(opt, kind) == \E i \in DOMAIN opt : opt[i].kind = kind

\* C11: NewLogger returns either a logger holding every backend its options
\* request and no error, or no logger and an error; a failure of a backend's
\* construction gives the second, also when another backend was built.
C11_AllOrNothing ==
  (last.op = "NewLogger") =>
    \/ /\ last.err = NoErr
       /\ last.child = 1 /\ Len(loggers) = 1
       /\ Requested(last.opt, "WithGoogleCloudLogging") =>
            /\ loggers[1].googleCloudLoggingClient # NilRef
            /\ loggers[1].googleCloudLoggingLogger # NilRef
       /\ Requested(last.opt, "WithZap") =>
            /\ loggers[1].zapLogger \in DOMAIN zapLoggers
            /\ loggers[1].zapConfig \in DOMAIN zapConfigs
    \/ /\ last.err # NoErr
       /\ last.child = NilRef
       /\ loggers = <<>>

\* A construction with both backends requested in which the remote client
\* was made and the build of the zap logger failed.
C11_Witness ==
  /\ last.op = "NewLogger"
  /\ Requested(last.opt, "WithGoogleCloudLogging")
  /\ Requested(last.opt, "WithZap")
  /\ last.calls = <<"NewClient", "zap.Build">>
  /\ remote.created = 1
  /\ last.err # NoErr /\ last.child = NilRef

OddLength(keysAndValues) == Len(keysAndValues) % 2 = 1

\* C12: a structured log verb or a derivation called with an odd-length
\* list panics: no backend is called, no logger is made, nothing of the list
\* is used and no logger, map or backend changes, whatever the level of the
\* call, the threshold and the backends of the logger.
C12_OddLengthPanics ==
  [][(/\ last'.op \in {"Log", "WithAdditionalKeysAndValues"}
      /\ OddLength(last'.kv)) =>
       /\ last'.panicked
       /\ proc'.status = "panicked"
       /\ last'.calls = <<>>
       /\ last'.child = NilRef
       /\ last'.labels = EmptyLabels /\ last'.zapFields = <<>>
       /\ UNCHANGED <<loggers, maps, zapConfigs, zapLoggers, remote>>]_vars

\* A structured call below the threshold, with a pair and a dangling key,
\* on a derived logger that has both backends.
C12_Witness ==
  /\ last.op = "Log" /\ OddLength(last.kv) /\ Len(last.kv) > 1
  /\ last.level < last.threshold
  /\ last.logger > 1
  /\ HasRemote(last.logger) /\ HasZap(last.logger)
  /\ last.panicked

Derivation == last.op = "WithAdditionalKeysAndValues"

\* C13 as stated: a derivation with an even-length list, the empty list
\* included, does not fail and returns a new logger (the zap logger of the
\* new fields being built without error); with the empty list the fields of
\* the new logger are those of the logger derived from.
C13_EvenLengthAccepted ==
  (Derivation /\ ~OddLength(last.kv) /\ last.buildErr = NoErr) =>
    /\ ~last.panicked
    /\ last.child = Len(loggers) /\ last.child # last.logger
    /\ last.kv = <<>> => Fields(last.child) = last.before

\* C13, amended: a derivation with a non-empty even-length list returns a
\* new logger, and panics only when the zap logger of the new fields cannot
\* be built; a derivation with the empty list panics and makes no logger.
C13_NonEmptyEvenLengthAccepted ==
  (Derivation /\ ~OddLength(last.kv)) =>
    IF last.kv = <<>>
      THEN /\ last.panicked /\ proc.status = "panicked"
           /\ last.child = NilRef /\ last.calls = <<>>
      ELSE /\ last.panicked <=> last.buildErr # NoErr
           /\ last.buildErr # NoErr => HasZap(last.logger)
           /\ ~last.panicked =>
                /\ last.child = Len(loggers) /\ last.child # last.logger
                /\ proc.status = "running"

\* A derivation with the empty list on a derived logger that has fields.
C13_Witness ==
  /\ Derivation /\ last.kv = <<>>
  /\ last.logger > 1
  /\ last.before # EmptyMap
  /\ last.panicked

\* C14: after SetLogLevel(x) on the logger NewLogger returned, the gate of
\* every logger derived from it is x: the threshold the Logger tests and,
\* with a local backend, the level of its zap configuration.
C14_BaseLevelReachesDerived ==
  [][(last'.op = "SetLogLevel" /\ last'.logger = 1) =>
       \A c \in DOMAIN loggers' :
         /\ loggers'[c].logLevel = last'.level
         /\ loggers'[c].zapLogger # NilRef =>
              zapConfigs'[loggers'[c].zapConfig].level = ZapLevelOf(last'.level)]_vars

\* C15: an entry of a formatted verb carries none of the common fields of
\* its logger on any backend: the remote entry has no labels and the entry
\* zap writes has no fields.
C15_FormattedCarriesNoCommonFields ==
  (last.op = "Logf") =>
    /\ last.labels = EmptyLabels
    /\ last.zapFields = <<>>

\* The handles of a logger on the remote backend.
RemoteHandles(lg) ==
  <<lg.googleCloudLoggingClient, lg.googleCloudLoggingLogger,
    lg.googleCloudLoggingDebugHook>>

\* C16: after every step, every logger has the remote client and the remote
\* logger of the logger NewLogger returned, and a zap logger (on the root's
\* zap configuration) exactly when that logger has one; no step makes
\* another remote client, and no step changes the remote handles or the
\* presence of the local backend of a logger that exists.
C16_DerivationSharesBackends ==
  [][/\ \A l \in DOMAIN loggers' :
          /\ RemoteHandles(loggers'[l]) = RemoteHandles(loggers'[1])
          /\ (loggers'[l].zapLogger # NilRef) <=> (loggers'[1].zapLogger # NilRef)
          /\ loggers'[l].zapConfig = loggers'[1].zapConfig
     /\ \A l \in DOMAIN loggers :
          /\ RemoteHandles(loggers'[l]) = RemoteHandles(loggers[l])
          /\ (loggers'[l].zapLogger # NilRef) <=> (loggers[l].zapLogger # NilRef)
     /\ loggers # <<>> => remote'.created = remote.created]_vars

\* A logger derived from a logger with both backends, after the root was
\* closed.
C16_Witness ==
  /\ last.op = "WithAdditionalKeysAndValues" /\ ~last.panicked
  /\ last.child > 1
  /\ HasRemote(last.child) /\ HasZap(last.child)
  /\ loggers[last.child].zapLogger # loggers[1].zapLogger
  /\ ~remote.open

\* The entries of the history that the log call number n handed over.
DeliveriesOf(n) ==
  {i \in DOMAIN history.deliveries : history.deliveries[i].call = n}

\* C17: the entries arrive at each backend in the order of the calls that
\* made them (of two entries of one backend, the one of the earlier call
\* comes first, whichever loggers of the tree the calls were made on); the
\* entry of a call is handed to the remote backend before the local one; and
\* the entries the last call handed over are in the history, one for each
\* backend it called.
C17_CallOrderPreserved ==
  LET d == history.deliveries
  IN history.recording =>
       /\ \A i, j \in DOMAIN d :
            (i < j /\ d[i].backend = d[j].backend) => d[i].call < d[j].call
       /\ \A i, j \in DOMAIN d :
            (d[i].call = d[j].call /\ d[i].backend = "remote"
               /\ d[j].backend = "local") => i < j
       /\ (last.op \in LogOps /\ ~last.panicked) =>
            /\ Cardinality(DeliveriesOf(history.calls)) =
                 Cardinality({i \in DOMAIN last.calls :
                                BackendOf(last.calls[i]) # "none"})
            /\ \A i \in DeliveriesOf(history.calls) :
                 d[i].logger = last.logger

\* Three calls, structured and formatted, on a logger with both backends
\* and on the logger derived from it, each of which reached both backends.
C17_Witness ==
  /\ history.recording /\ history.calls = 3
  /\ Len(history.deliveries) = 6
  /\ \E i, j \in DOMAIN history.deliveries :
       history.deliveries[i].logger # history.deliveries[j].logger
  /\ last.op = "Logf" /\ Len(last.calls) >= 2

\* The last option of a kind in a list: its index, 0 when there is none.
LastOf(opt, kind) ==
  IF Requested(opt, kind)
    THEN CHOOSE i \in DOMAIN opt :
           /\ opt[i].kind = kind
           /\ \A j \in DOMAIN opt : opt[j].kind = kind => j <= i
    ELSE 0

\* The value the last option of a kind gives, or the default.
Setting(opt, kind, field, default) ==
  IF LastOf(opt, kind) = 0 THEN default ELSE opt[LastOf(opt, kind)][field]

\* The configuration in which every setting is the one of the last option
\* of its kind.
LastWins(opt) ==
  [logLevel |-> Setting(opt, "WithLevel", "level", Debug),
   useZap |-> Requested(opt, "WithZap"),
   zapConfig |-> Setting(opt, "WithZap", "zapConfig", NoZapConfig),
   useGoogleCloudLogging |-> Requested(opt, "WithGoogleCloudLogging"),
   gcpProjectID |-> Setting(opt, "WithGoogleCloudLogging", "gcpProjectID", ""),
   googleCloudLoggingLogID |-> Setting(opt, "WithGoogleCloudLogging", "logID", ""),
   googleCloudLoggingMonitoredResource |->
     Setting(opt, "WithGoogleCloudLogging", "resource", NoResource),
   hasCommon |-> Requested(opt, "WithCommonKeysAndValues"),
   commonKeysAndValues |-> Setting(opt, "WithCommonKeysAndValues", "kv", <<>>),
   googleCloudLoggingUnitTestHook |->
     Requested(opt, "withGoogleCloudLoggingUnitTestHook"),
   outputPaths |-> Setting(opt, "WithOutputPaths", "paths", <<>>),
   errorOutputPaths |-> Setting(opt, "WithErrorOutputPaths", "paths", <<>>),
   outputHints |-> Setting(opt, "WithOutputHints", "hints", <<>>)]

\* The list with the options at i and i + 1 exchanged.
Swap(opt, i) ==
  [j \in DOMAIN opt |->
     IF j = i THEN opt[i + 1] ELSE IF j = i + 1 THEN opt[i] ELSE opt[j]]

\* C18: the configuration NewLogger gets from a list of options has, for
\* every setting, the value of the last option of its kind (the default
\* when there is none); exchanging two neighbouring options of different
\* kinds gives the same configuration; the logger made has the level of the
\* last level option.
C18_OptionsLastWins ==
  (last.op = "NewLogger") =>
    /\ ApplyOptions(last.opt, DefaultOptions) = LastWins(last.opt)
    /\ \A i \in 1..(Len(last.opt) - 1) :
         last.opt[i].kind # last.opt[i + 1].kind =>
           ApplyOptions(Swap(last.opt, i), DefaultOptions) =
             ApplyOptions(last.opt, DefaultOptions)
    /\ last.child # NilRef =>
         loggers[last.child].logLevel = LastWins(last.opt).logLevel

\* A logger made from two level options with different levels and an
\* option of another kind between them.
C18_Witness ==
  /\ last.op = "NewLogger" /\ last.child # NilRef
  /\ Len(last.opt) = 3
  /\ last.opt[1].kind = "WithLevel" /\ last.opt[3].kind = "WithLevel"
  /\ last.opt[2].kind # "WithLevel"
  /\ last.opt[1].level # last.opt[3].level
  /\ loggers[last.child].logLevel = last.opt[3].level

\* C19: the logger NewLogger returns has the threshold of the last level
\* option, and Debug without one, which lets a call of each of the five
\* levels pass the gate of the Logger; its zap configuration, when
\* NewLogger made it (no configuration was given with WithZap), has the
\* zap level the threshold maps to.
C19_InitialThreshold ==
  (last.op = "NewLogger" /\ last.child # NilRef) =>
    LET lg == loggers[last.child]
        x == Setting(last.opt, "WithLevel", "level", Debug)
    IN /\ lg.logLevel = x
       /\ ~Requested(last.opt, "WithLevel") =>
            /\ lg.logLevel = Debug
            /\ \A lv \in Levels : FormattedGate(lv, lg.logLevel)
       /\ (/\ Requested(last.opt, "WithZap")
           /\ ~Setting(last.opt, "WithZap", "zapConfig", NoZapConfig).given) =>
            zapConfigs[lg.zapConfig].level = levelToZapLevelMap[x]

\* A logger with a zap logger of the default configuration, made from a
\* list with two level options, the last being WithLevel(Fatal).
C19_Witness ==
  /\ last.op = "NewLogger" /\ last.child # NilRef
  /\ HasZap(last.child)
  /\ ~Setting(last.opt, "WithZap", "zapConfig", NoZapConfig).given
  /\ Len(last.opt) = 3
  /\ last.opt[1] = WithLevel(Info) /\ last.opt[3] = WithLevel(Fatal)
  /\ loggers[last.child].logLevel = Fatal
  /\ zapConfigs[loggers[last.child].zapConfig].level = ZapFatalLevel

\* The numeric value of a severity of the remote backend (gcloudlog).
SeverityValue(s) ==
  CASE s = "Default" -> 0
    [] s = "Debug" -> 100
    [] s = "Info" -> 200
    [] s = "Warning" -> 400
    [] s = "Error" -> 500
    [] s = "Critical" -> 600

\* The severities the claim names for the five levels.
RemoteSeverities ==
  [lv \in Levels |->
     <<"Debug", "Info", "Warning", "Error", "Critical">>[lv + 1]]
LocalSeverities ==
  [lv \in Levels |->
     <<ZapDebugLevel, ZapInfoLevel, ZapWarnLevel, ZapErrorLevel,
       ZapFatalLevel>>[lv + 1]]

\* C20: both tables have an entry for each of the five levels, the one the
\* claim names; a higher level has a higher severity in both; the lookups
\* of logImpl and logImplf never give the fallback severity and the zap
\* functions selected are not nil; and the entries that log calls hand to
\* the backends have these severities.
C20_SeverityTablesTotal ==
  /\ DOMAIN levelToGoogleCloudLoggingSeverityMap = Levels
  /\ DOMAIN levelToZapLevelMap = Levels
  /\ \A lv \in Levels :
       /\ SeverityOf(lv) = RemoteSeverities[lv]
       /\ SeverityOf(lv) # DefaultSeverity
       /\ ZapLevelOf(lv) = LocalSeverities[lv]
       /\ ~levelToZapLogFunc(lv).isNil
       /\ levelToZapLogFunc(lv).level = LocalSeverities[lv]
  /\ \A a, b \in Levels :
       a < b => /\ SeverityValue(SeverityOf(a)) < SeverityValue(SeverityOf(b))
                /\ ZapLevelOf(a) < ZapLevelOf(b)
  /\ (last.op \in LogOps /\ ~last.panicked) =>
       /\ (Contains(last.calls, "remote.Log") \/ Contains(last.calls, "hook")) =>
            last.severity = RemoteSeverities[last.level]
       /\ (HasZap(last.logger) /\ last.calls # <<>>) =>
            Count(last.calls, "zap.Log") = 1
       /\ Contains(last.calls, "zap.os.Exit") <=>
            (HasZap(last.logger) /\ last.calls # <<>> /\ last.level = Fatal)

\* A Fatal entry handed to both backends: Critical for the remote one, and
\* zap's fatal function for the local one.
C20_Witness ==
  /\ last.op = "Log" /\ last.verb = "Fatal"
  /\ HasRemote(last.logger) /\ HasZap(last.logger)
  /\ last.severity = "Critical"
  /\ Contains(last.calls, "zap.os.Exit")

MissingVars(env) == {v \in EnvVars : env[v] = ""}

\* C21: NewCloudFunctionLogger returns an error and no logger when one of
\* GCP_PROJECT, FUNCTION_NAME and FUNCTION_REGION is empty, the error naming
\* a variable that is missing, and makes no remote client then; it makes
\* the remote logger only when the three are set.
C21_CloudFunctionEnvRequired ==
  (last.op = "NewCloudFunctionLogger") =>
    /\ MissingVars(last.env) # {} =>
         /\ last.child = NilRef /\ loggers = <<>>
         /\ last.err \in {"env var GCP_PROJECT missing",
                           "env var FUNCTION_NAME missing",
                           "env var FUNCTION_REGION missing"}
         /\ \E v \in MissingVars(last.env) :
              last.err = CASE v = "GCP_PROJECT" -> "env var GCP_PROJECT missing"
                           [] v = "FUNCTION_NAME" -> "env var FUNCTION_NAME missing"
                           [] v = "FUNCTION_REGION" -> "env var FUNCTION_REGION missing"
         /\ last.calls = <<>> /\ remote.created = 0
    /\ (last.child # NilRef \/ remote.created > 0) => MissingVars(last.env) = {}

\* The gate of the local backend of a logger: the level of the zap
\* configuration its zap logger was built from.
LocalGate(lg, configs) == configs[lg.zapConfig].level

\* C22: every logger with a local backend has a local gate that is the zap
\* level its own threshold maps to, in every state reached by construction,
\* derivation and SetLogLevel on any logger.
C22_LocalGateAgrees ==
  \A l \in DOMAIN loggers :
    HasZap(l) => LocalGate(loggers[l], zapConfigs) = ZapLevelOf(loggers[l].logLevel)

KeyPositions(list) == {i \in DOMAIN list : i % 2 = 1}

\* The positions of a flat list where key stands as a key.
PositionsOf(key, list) == {i \in KeyPositions(list) : list[i] = key}

\* The fields bound to the zap logger of logger l.
BoundFields(l) == zapLoggers[loggers[l].zapLogger].fields

\* C24: the zap logger of every logger is bound with exactly the keys of
\* the common fields of that logger, each key once and with the value the
\* logger has for it: no key is bound twice after a chain of derivations,
\* one that gives a key a new value included.
C24_ZapBoundOncePerKey ==
  \A l \in DOMAIN loggers :
    HasZap(l) =>
      /\ Len(BoundFields(l)) % 2 = 0
      /\ \A i \in KeyPositions(BoundFields(l)) : BoundFields(l)[i] \in DOMAIN Fields(l)
      /\ \A k \in DOMAIN Fields(l) :
           /\ Cardinality(PositionsOf(k, BoundFields(l))) = 1
           /\ \A i \in PositionsOf(k, BoundFields(l)) :
                BoundFields(l)[i + 1] = Fields(l)[k]

\* A logger with a zap logger derived from a derived logger, the last
\* derivation giving a key of the base a new value.
C24_Witness ==
  /\ last.op = "WithAdditionalKeysAndValues"
  /\ last.child > 2
  /\ last.logger > 1
  /\ HasZap(last.child)
  /\ \E k \in DOMAIN last.before : Fields(last.child)[k] # last.before[k]

\* The keys of a flat list of keys and values are all different.
DistinctKeys(list) ==
  \A i, j \in KeyPositions(list) : list[i] = list[j] => i = j

\* C25: in a structured call on a logger with a zap logger, the fields
\* handed to zap hold each key once, a key of the common fields that the
\* call gives too with the value of the call. The lists of calls that give
\* one key twice themselves are left aside.
C25_LocalFieldsMerged ==
  (/\ last.op = "Log"
   /\ ~last.panicked
   /\ HasZap(last.logger)
   /\ Contains(last.calls, "zap.Log")
   /\ DistinctKeys(last.kv)) =>
    /\ DistinctKeys(last.zapFields)
    /\ \A i \in KeyPositions(last.kv) :
         \A j \in PositionsOf(last.kv[i], last.zapFields) :
           last.zapFields[j + 1] = last.kv[i + 1]

(***************************************************************************)
(* The revision of the Logger that keeps the common keys and values in a   *)
(* slice (logging.go lines 577-957). The loggers of this revision are kept *)
(* in the same heap; its fields stackdriverClient and stackdriverLogger    *)
(* are the fields the final revision names googleCloudLoggingClient and    *)
(* googleCloudLoggingLogger, and commonKeysAndValues is a slice: a         *)
(* reference to an array, a length and a capacity.                         *)
(***************************************************************************)
MaxSliceLoggers == 4
MaxSpare == 2

\* The nil slice, the zero value of interface{}, and a slice held as one
\* interface{} value.
NilSlice == [array |-> NilRef, len |-> 0, cap |-> 0]
NilValue == <<"nil", 0>>
SliceVal(elems) == <<"slice", elems>>

\* The elements of a slice.
SliceElements(sl, heap) ==
  IF sl.len = 0 THEN <<>> ELSE SubSeq(heap[sl.array], 1, sl.len)

\* The slice of the arguments of a variadic call: nil without arguments,
\* else a new array of exactly the arguments.
VariadicSlice(elems, heap) ==
  IF elems = <<>> THEN NilSlice
  ELSE [array |-> Len(heap) + 1, len |-> Len(elems), cap |-> Len(elems)]

\* The capacities Go's append may give its result: the capacity of the
\* slice when the elements fit, else that of a new array, which holds the
\* elements at least and whose spare room the language leaves to the
\* implementation.
AppendCaps(sl, n) ==
  IF sl.len + n <= sl.cap THEN {sl.cap}
  ELSE (sl.len + n)..(sl.len + n + MaxSpare)

\* Go's append(sl, elems...): when the elements fit the capacity they are
\* written into the array of sl after its length, and the result shares
\* that array; else the result is a new array of capacity newCap.
append(sl, elems, newCap, heap) ==
  IF sl.len + Len(elems) <= sl.cap
    THEN [heap |-> IF elems = <<>> THEN heap
                   ELSE [heap EXCEPT ![sl.array] =
                           [i \in DOMAIN @ |->
                              IF i > sl.len /\ i <= sl.len + Len(elems)
                                THEN elems[i - sl.len] ELSE @[i]]],
          slice |-> [sl EXCEPT !.len = sl.len + Len(elems)]]
    ELSE [heap |-> Append(heap,
                          SliceElements(sl, heap) \o elems \o
                          [i \in 1..(newCap - sl.len - Len(elems)) |-> NilValue]),
          slice |-> [array |-> Len(heap) + 1, len |-> sl.len + Len(elems),
                     cap |-> newCap]]

\* fmt.Sprintf("%v", x) and fmt.Sprintf("%+v", x) of a key or a value.
Sprintf(x) ==
  CASE x[1] = "slice" -> "[slice]"
    [] x[1] = "nil" -> "<nil>"
    [] OTHER -> Sprint(x)

\* NewLogger (logging.go lines 678-731): the slice of the option becomes
\* the slice of the logger, the zap logger is bound with its elements.
SliceNewLogger(opt, clientOk, buildOk) ==
  LET opts == ApplyOptions(opt, DefaultOptions)
      useRemote == opts.useGoogleCloudLogging
      remote1 == IF useRemote /\ clientOk
                   THEN [created |-> remote.created + 1, open |-> TRUE,
                         dirty |-> TRUE]
                   ELSE remote
      calls1 == IF useRemote THEN <<"NewClient">> ELSE <<>>
      calls2 == IF opts.useZap THEN calls1 \o <<"zap.Build">> ELSE calls1
      ref == IF useRemote THEN RealRef ELSE NilRef
      l == [logLevel |-> opts.logLevel,
            zapConfig |-> IF opts.useZap THEN Len(zapConfigs) + 1 ELSE NilRef,
            zapLogger |-> IF opts.useZap THEN Len(zapLoggers) + 1 ELSE NilRef,
            googleCloudLoggingClient |-> ref,
            googleCloudLoggingLogger |-> ref,
            commonKeysAndValues |-> VariadicSlice(opts.commonKeysAndValues, arrays),
            googleCloudLoggingDebugHook |-> FALSE]
      result == [NoLast EXCEPT !.op = "SliceNewLogger", !.opt = opt]
  IN /\ Running
     /\ loggers = <<>>
     /\ UNCHANGED <<maps, proc, threads, sharedWrites, history>>
     /\ IF ProjectIDMissing(opts)
          THEN /\ last' = [result EXCEPT !.err = "Stackdriver requires a GCP project ID"]
               /\ UNCHANGED <<loggers, arrays, zapConfigs, zapLoggers, remote>>
        ELSE IF useRemote /\ ~clientOk
          THEN /\ last' = [result EXCEPT !.err = "failed to create Stackdriver log",
                                         !.calls = calls1]
               /\ UNCHANGED <<loggers, arrays, zapConfigs, zapLoggers, remote>>
        ELSE IF opts.useZap /\ ~buildOk
          THEN /\ last' = [result EXCEPT !.err = "failed to create Zap logger",
                                         !.calls = calls2]
               /\ remote' = remote1
               /\ UNCHANGED <<loggers, arrays, zapConfigs, zapLoggers>>
        ELSE /\ last' = [result EXCEPT !.child = Len(loggers) + 1,
                                       !.calls = calls2]
             /\ remote' = remote1
             /\ loggers' = Append(loggers, l)
             /\ arrays' = IF opts.commonKeysAndValues = <<>> THEN arrays
                          ELSE Append(arrays, opts.commonKeysAndValues)
             /\ zapConfigs' = IF opts.useZap
                                THEN Append(zapConfigs, createZapLoggerConfig(opts))
                                ELSE zapConfigs
             /\ zapLoggers' = IF opts.useZap
                                THEN Append(zapLoggers,
                                            [config |-> Len(zapConfigs) + 1,
                                             fields |-> opts.commonKeysAndValues])
                                ELSE zapLoggers

\* WithAdditionalKeysAndValues (logging.go lines 653-674): a copy of the
\* logger whose slice is append(l.commonKeysAndValues, keysAndValues...)
\* and whose zap logger is l.zapLogger.With(keysAndValues...).
SliceWithAdditionalKeysAndValues(l, keysAndValues, newCap) ==
  LET base == loggers[l]
      app == append(base.commonKeysAndValues, keysAndValues, newCap, arrays)
      result == [NoLast EXCEPT !.op = "SliceWithAdditionalKeysAndValues",
                               !.logger = l, !.kv = keysAndValues,
                               !.threshold = base.logLevel,
                               !.before = SliceElements(base.commonKeysAndValues, arrays)]
  IN /\ Running
     /\ l \in DOMAIN loggers
     /\ Len(loggers) < MaxSliceLoggers
     /\ newCap \in AppendCaps(base.commonKeysAndValues, Len(keysAndValues))
     /\ UNCHANGED <<maps, zapConfigs, remote, threads, sharedWrites, history>>
     /\ IF Len(keysAndValues) % 2 # 0
          THEN /\ proc' = [proc EXCEPT !.status = "panicked"]
               /\ last' = [result EXCEPT !.panicked = TRUE]
               /\ UNCHANGED <<loggers, arrays, zapLoggers>>
        ELSE /\ arrays' = app.heap
             /\ zapLoggers' =
                  IF base.zapLogger # NilRef
                    THEN Append(zapLoggers,
                                [config |-> zapLoggers[base.zapLogger].config,
                                 fields |-> zapLoggers[base.zapLogger].fields
                                            \o keysAndValues])
                    ELSE zapLoggers
             /\ loggers' =
                  Append(loggers,
                         [base EXCEPT
                            !.commonKeysAndValues = app.slice,
                            !.zapLogger = IF base.zapLogger # NilRef
                                            THEN Len(zapLoggers) + 1
                                            ELSE NilRef])
             /\ last' = [result EXCEPT !.child = Len(loggers) + 1]
             /\ UNCHANGED proc

\* The loop of logImpl over allKeysAndValues (logging.go lines 838-844),
\* from the index i: each step reads the elements i and i+1, and a read
\* past the length of the slice is a run-time panic.
RECURSIVE SliceLabels(_, _, _)
SliceLabels(allKeysAndValues, i, labels) ==
  IF ~(i < Len(allKeysAndValues)) THEN [panics |-> FALSE, labels |-> labels]
  ELSE IF ~(i + 1 < Len(allKeysAndValues))
    THEN [panics |-> TRUE, labels |-> labels]
  ELSE SliceLabels(allKeysAndValues, i + 2,
                   LabelPut(labels, Sprintf(allKeysAndValues[i + 1]),
                            Sprintf(allKeysAndValues[i + 2])))

\* The structured verbs of the revision call logImpl (logging.go lines
\* 820-860). Line 835 appends keysAndValues itself, one element that is a
\* slice, to the common slice.
SliceLog(l, verb, keysAndValues, newCap) ==
  LET lg == loggers[l]
      level == VerbLevel(verb)
      calls == logImplCalls(lg, level)
      app == append(lg.commonKeysAndValues, <<SliceVal(keysAndValues)>>,
                    newCap, arrays)
      built == SliceLabels(SliceElements(app.slice, app.heap), 0, EmptyLabels)
      result == [NoLast EXCEPT !.op = "SliceLog", !.verb = verb, !.logger = l,
                               !.level = level, !.threshold = lg.logLevel,
                               !.kv = keysAndValues,
                               !.before = SliceElements(lg.commonKeysAndValues, arrays)]
  IN /\ Running
     /\ l \in DOMAIN loggers
     /\ verb \in StructuredVerbs
     /\ UNCHANGED <<loggers, maps, zapConfigs, zapLoggers, threads,
                    sharedWrites, history>>
     /\ IF Len(keysAndValues) % 2 # 0
          THEN /\ proc' = [proc EXCEPT !.status = "panicked"]
               /\ last' = [result EXCEPT !.panicked = TRUE]
               /\ UNCHANGED <<remote, arrays>>
        ELSE IF ~HasRemote(l)
          THEN /\ newCap = lg.commonKeysAndValues.cap
               /\ proc' = ProcAfter(calls)
               /\ last' = [result EXCEPT
                             !.calls = calls,
                             !.zapFields =
                               IF HasZap(l)
                                 THEN zapLoggers[lg.zapLogger].fields
                                      \o keysAndValues
                                 ELSE <<>>]
               /\ UNCHANGED <<remote, arrays>>
        ELSE /\ newCap \in AppendCaps(lg.commonKeysAndValues, 1)
             /\ arrays' = app.heap
             /\ IF built.panics
                  THEN /\ proc' = [proc EXCEPT !.status = "panicked"]
                       /\ last' = [result EXCEPT !.panicked = TRUE,
                                                 !.labels = built.labels]
                       /\ UNCHANGED remote
                  ELSE /\ remote' = RemoteAfter(lg, calls)
                       /\ proc' = ProcAfter(calls)
                       /\ last' = [result EXCEPT
                                     !.calls = calls,
                                     !.labels = built.labels,
                                     !.severity = SeverityOf(level),
                                     !.zapFields =
                                       IF HasZap(l)
                                         THEN zapLoggers[lg.zapLogger].fields
                                              \o keysAndValues
                                         ELSE <<>>]

SliceOptionLists ==
  {<<WithZap(NoZapConfig)>>,
   <<WithGoogleCloudLogging("project")>>,
   <<WithGoogleCloudLogging("")>>,
   <<WithZap(NoZapConfig), WithGoogleCloudLogging("project"),
     WithCommonKeysAndValues(<<StrVal("k1"), StrVal("v1"), StrVal("k2"), IntVal(1)>>)>>}

SliceFieldLists ==
  {<<>>,
   <<StrVal("k1")>>,
   <<StrVal("k1"), BoolVal(FALSE)>>,
   <<StrVal("k1"), StrVal("v2")>>}

\* The capacities a call may find: those append may give, or the capacity
\* of the logger's slice when nothing is appended.
SliceCaps(l, n) ==
  AppendCaps(loggers[l].commonKeysAndValues, n) \cup
    {loggers[l].commonKeysAndValues.cap}

\* One caller that derives loggers and writes structured entries with the
\* revision that keeps a slice.
NextSlices ==
  \/ /\ last.op = "none"
     /\ \E opt \in SliceOptionLists, clientOk, buildOk \in BOOLEAN :
          SliceNewLogger(opt, clientOk, buildOk)
  \/ \E l \in DOMAIN loggers, kv \in SliceFieldLists :
       \E newCap \in SliceCaps(l, Len(kv)) :
         SliceWithAdditionalKeysAndValues(l, kv, newCap)
  \/ \E l \in DOMAIN loggers, verb \in {"Info"},
        kv \in {<<>>, <<StrVal("k1"), BoolVal(FALSE)>>} :
       \E newCap \in SliceCaps(l, 1) : SliceLog(l, verb, kv, newCap)

SpecSlices == Init /\ [][NextSlices]_vars

\* The labels of a flat list of keys and values, a later pair of a key
\* replacing an earlier one.
RECURSIVE MergedLabels(_, _)
MergedLabels(list, labels) ==
  IF Len(list) < 2 THEN labels
  ELSE MergedLabels(SubSeq(list, 3, Len(list)),
                    LabelPut(labels, Sprintf(list[1]), Sprintf(list[2])))

\* C26: in the revision that keeps a slice, a structured call with an even
\* list on a logger with the remote logger does not panic and hands the
\* remote logger an entry whose labels are the common pairs and the pairs
\* of the call, a key of both with the value of the call.
C26_SliceLabelsMerged ==
  (/\ last.op = "SliceLog"
   /\ HasRemote(last.logger)
   /\ Len(last.kv) % 2 = 0) =>
    /\ ~last.panicked
    /\ Contains(last.calls, "remote.Log")
    /\ last.labels = MergedLabels(last.before \o last.kv, EmptyLabels)

\* C27: in the revision that keeps a slice, a derivation changes the common
\* keys and values of no logger there is, and the new logger has those of
\* its base followed by the list given.
C27_SliceDerivationIndependent ==
  [][(last'.op = "SliceWithAdditionalKeysAndValues" /\ ~last'.panicked) =>
       /\ \A o \in DOMAIN loggers :
            SliceElements(loggers'[o].commonKeysAndValues, arrays') =
              SliceElements(loggers[o].commonKeysAndValues, arrays)
       /\ SliceElements(loggers'[last'.child].commonKeysAndValues, arrays') =
            last'.before \o last'.kv]_vars

\* C28: when a call of a Fatal verb has ended the process on a logger with
\* the remote logger, no entry handed to the remote logger is left in its
\* buffer: the entries were flushed before the exit, whether the Logger's
\* os.Exit or zap's ended the process.
C28_FatalExitFlushesRemote ==
  (/\ proc.status = "exited"
   /\ last.op \in {"Log", "Logf"}
   /\ last.level = Fatal
   /\ loggers[last.logger].googleCloudLoggingLogger = RealRef
   /\ Contains(last.calls, "remote.Log")) =>
    ~remote.dirty

\* C29: Flush on a logger with both backends flushes the remote logger and
\* syncs the zap logger in every call, a call whose remote flush fails
\* included, and returns the first error met, the remote one before the
\* local one.
C29_FlushReachesEveryBackend ==
  (/\ last.op = "Flush"
   /\ HasRemote(last.logger)
   /\ HasZap(last.logger)) =>
    /\ Contains(last.calls, "remote.Flush")
    /\ Contains(last.calls, "zap.Sync")
    /\ last.err = IF last.flushErr # NoErr THEN last.flushErr ELSE last.syncErr

\* C30: when NewLogger has returned an error, no client made by the call
\* is left open.
C30_FailedConstructionReleasesClient ==
  (last.op = "NewLogger" /\ last.err # NoErr) => ~remote.open

====
